---- MODULE Spec2Model ----
(***************************************************************************)
(* Nebula: a Markdown <-> NebulaXML editor (src/Nebula.tsx) and its file   *)
(* manager (src/contexts/FileManagerContext.tsx).                          *)
(*                                                                         *)
(* Texts (XML, markdown, titles) are sequences of tokens.  A token is one  *)
(* character ("<", "a", "\n", ...) or a name: an element name, an          *)
(* attribute name, an entity ("&lt;") or a number, which stands for its    *)
(* two or more characters, none of them one of the characters in Single.   *)
(* DOM trees are records; a text node has tag "#text".                     *)
(***************************************************************************)
EXTENDS Integers, Sequences, FiniteSets, TLC

\* ------------------------------------------------------------------ bounds

\* Top-level blocks of a render tree or of a typed XML document.
MaxBlocks == 2

\* Files in the file manager.
MaxFiles == 2

\* Steps of the clock.
MaxTicks == 3

\* Annotations applied to a render tree.
MaxComments == 2

\* Times a file name gets " (Copy)" appended.
MaxCopies == 1

\* ------------------------------------------------------------- text helpers

\* The backtick character, which a TLA+ string cannot hold.
BT == "BT"

\* The one-character tokens; every other token is a name of >= 2 characters.
Single ==
  {"<", ">", "/", "=", "\"", " ", "\n", "!", "?", "&", "#", "*", "~", BT,
   "\\", "[", "]", "(", ")", "|", "-", ".", "a", "b", "c", "x",
   "0", "1", "2", "3", "4", "5", "6", "7", "8", "9"}

\* JavaScript's white space, as far as the alphabet has it.
WS == {" ", "\n"}

\* A JavaScript number: an integer, or NaN.
Num(v) == [nan |-> FALSE, v |-> v]
NaN == [nan |-> TRUE, v |-> 0]

SeqMin(S) == CHOOSE i \in S : \A j \in S : i <= j
SeqMax(S) == CHOOSE i \in S : \A j \in S : j <= i

\* A sequence given as a function, evaluated once into a tuple.
Tup(f) == f \o <<>>

RECURSIVE FlattenTup(_)
FlattenTup(ss) ==
  IF Len(ss) = 0 THEN <<>>
  ELSE IF Len(ss) = 1 THEN Tup(ss[1])
  ELSE LET h == Len(ss) \div 2 IN
       FlattenTup(SubSeq(ss, 1, h)) \o FlattenTup(SubSeq(ss, h + 1, Len(ss)))

\* Array.prototype.join(""): the concatenation of a sequence of texts
\* (by halves, to keep the evaluation shallow).
Flatten(ss) == FlattenTup(Tup(ss))

JoinTup(ss, sep) ==
  FlattenTup(Tup([i \in 1..Len(ss) |-> IF i = 1 THEN ss[i] ELSE sep \o ss[i]]))

\* Array.prototype.join(sep)
Join(ss, sep) == JoinTup(Tup(ss), sep)

\* The indices of s that satisfy Test, in order.
Indices(s, Test(_)) == SelectSeq(Tup([i \in 1..Len(s) |-> i]), LAMBDA i : Test(s[i]))

\* String.prototype.split("\n")
Split(s) ==
  LET nl == Indices(s, LAMBDA c : c = "\n")
      from(k) == IF k = 1 THEN 1 ELSE nl[k - 1] + 1
      to(k) == IF k = Len(nl) + 1 THEN Len(s) ELSE nl[k] - 1
  IN  Tup([k \in 1..(Len(nl) + 1) |-> SubSeq(s, from(k), to(k))])

\* String.prototype.trim / trimEnd / trimStart
Trim(s) ==
  LET ix == {i \in 1..Len(s) : s[i] \notin WS} IN
  IF ix = {} THEN <<>> ELSE SubSeq(s, SeqMin(ix), SeqMax(ix))

TrimEnd(s) ==
  LET ix == {i \in 1..Len(s) : s[i] \notin WS} IN
  IF ix = {} THEN <<>> ELSE SubSeq(s, 1, SeqMax(ix))

\* String.prototype.repeat(n) of a one-token text; ToIntegerOrInfinity(NaN) = 0
Repeat(c, n) == IF n.nan THEN <<>> ELSE Tup([i \in 1..n.v |-> c])

\* String.prototype.includes of a two-token pattern
Includes2(s, a, b) == \E i \in 1..(Len(s) - 1) : s[i] = a /\ s[i + 1] = b

StartsWith2(s, a, b) == Len(s) >= 2 /\ s[1] = a /\ s[2] = b

EndsWith2(s, a, b) == Len(s) >= 2 /\ s[Len(s) - 1] = a /\ s[Len(s)] = b

\* ------------------------------------------------------------------- DOM

Txt(t) == [tag |-> "#text", attrs |-> <<>>, kids |-> <<>>, text |-> t]
Elt(tag, attrs, kids) == [tag |-> tag, attrs |-> attrs, kids |-> kids, text |-> <<>>]
IsText(n) == n.tag = "#text"
IsElt(n) == n.tag # "#text"

\* Element.children: the child elements
Children(n) == SelectSeq(n.kids, IsElt)

NULL == "null"

\* el.getAttribute(name) || dflt : an absent attribute (null) and "" give
\* the default
AttrOr(el, name, dflt) ==
  LET ix == {i \in 1..Len(el.attrs) : el.attrs[i][1] = name} IN
  IF ix = {} \/ el.attrs[SeqMin(ix)][2] = <<>> THEN dflt
  ELSE el.attrs[SeqMin(ix)][2]

RECURSIVE TextContent(_)
\* Node.textContent: the concatenated text of the descendants
TextContent(n) ==
  IF IsText(n) THEN n.text
  ELSE Flatten([i \in 1..Len(n.kids) |-> TextContent(n.kids[i])])

RECURSIVE Descendants(_)
\* The descendant elements of n in document order (querySelectorAll("*")).
Descendants(n) ==
  Flatten([i \in 1..Len(n.kids) |->
             IF IsElt(n.kids[i])
             THEN <<n.kids[i]>> \o Descendants(n.kids[i])
             ELSE <<>>])

\* ------------------------------------------------- XMLSerializer (browser)

EscChar(c) ==
  IF c = "<" THEN "&lt;" ELSE IF c = ">" THEN "&gt;"
  ELSE IF c = "&" THEN "&amp;" ELSE c

\* Text and attribute values are serialized with &, < and > escaped.
Escape(t) == Tup([i \in 1..Len(t) |-> EscChar(t[i])])

SerializeAttrs(as) ==
  Flatten([i \in 1..Len(as) |->
             <<" ", as[i][1], "=", "\"">> \o Escape(as[i][2]) \o <<"\"">>])

RECURSIVE SerializeNode(_)
\* XMLSerializer.serializeToString of a node of an XML document: an element
\* without children is written self-closed.
SerializeNode(n) ==
  IF IsText(n) THEN Escape(n.text)
  ELSE IF n.kids = <<>>
  THEN <<"<", n.tag>> \o SerializeAttrs(n.attrs) \o <<"/", ">">>
  ELSE <<"<", n.tag>> \o SerializeAttrs(n.attrs) \o <<">">>
       \o Flatten([i \in 1..Len(n.kids) |-> SerializeNode(n.kids[i])])
       \o <<"<", "/", n.tag, ">">>

\* ---------------------------------------------------------------- xmlPretty

\* A variant of the line breaking that also breaks after a tag that text
\* follows.
BreakEveryTag(s) ==
  Flatten([i \in 1..Len(s) |->
             IF i < Len(s) /\ s[i] = ">" THEN <<">", "\n">> ELSE <<s[i]>>])

\* xml.replace(/(>)(<)(\/*)/g, "$1\n$2$3"): a line break between "><"
BreakTags(s) ==
  Flatten([i \in 1..Len(s) |->
             IF i < Len(s) /\ s[i] = ">" /\ s[i + 1] = "<"
             THEN <<">", "\n">> ELSE <<s[i]>>])

\* /^<[^!?][^>]*[^/]>.*$/ : "<", a character other than ! and ?, characters
\* other than ">", a character other than "/", ">", then anything.  A name
\* token is two or more of the characters between "<" and ">".
OpenTagRe(node) ==
  /\ Len(node) >= 3
  /\ node[1] = "<"
  /\ node[2] \notin {"!", "?"}
  /\ \E j \in 3..Len(node) :
       /\ node[j] = ">"
       /\ node[j - 1] # "/"
       /\ \A k \in 3..(j - 2) : node[k] # ">"
       /\ (j - 1 > 2 \/ node[2] \notin Single)

\* /^<[^!?][^>]*>$/ : the whole line is one tag
WholeTagRe(node) ==
  /\ Len(node) >= 3
  /\ node[1] = "<"
  /\ node[2] \notin {"!", "?"}
  /\ node[Len(node)] = ">"
  /\ \A k \in 3..(Len(node) - 1) : node[k] # ">"

\* The indent a line adds for the lines after it (0 or 1).
LineIndent(node) ==
  IF StartsWith2(node, "<", "/") THEN 0
  ELSE IF OpenTagRe(node) /\ ~Includes2(node, "<", "/") THEN 1
  ELSE IF WholeTagRe(node) /\ ~EndsWith2(node, "/", ">")
          /\ ~StartsWith2(node, "<", "/") THEN 1
  ELSE 0

\* The pad a line is written with: a line starting "</" steps back first.
LinePad(node, pad) ==
  IF StartsWith2(node, "<", "/")
  THEN (IF pad - 1 > 0 THEN pad - 1 ELSE 0)
  ELSE pad

PADDING == <<" ", " ">>

RECURSIVE PrettyLines(_, _)
\* The forEach over the lines: blank lines are skipped; the tests are made
\* on the line as split (not trimmed), the line is written trimmed.
PrettyLines(lines, pad) ==
  IF lines = <<>> THEN <<>>
  ELSE LET node == Head(lines) IN
       IF Trim(node) = <<>> THEN PrettyLines(Tail(lines), pad)
       ELSE LET p == LinePad(node, pad) IN
            Flatten([i \in 1..p |-> PADDING]) \o Trim(node) \o <<"\n">>
            \o PrettyLines(Tail(lines), p + LineIndent(node))

xmlPretty(xml) == Trim(PrettyLines(Split(BreakTags(xml)), 0))

\* ---------------------------------------------------------- htmlToNebulaXml
\* The argument is the parsed render tree: the child nodes of the <div> that
\* wraps the sanitized HTML.

\* The canonical tag of an inline render element.
InlineTag(tag) ==
  IF tag \in {"strong", "b"} THEN "bold"
  ELSE IF tag \in {"em", "i"} THEN "italic"
  ELSE IF tag \in {"del", "s"} THEN "strike"
  ELSE IF tag = "code" THEN "code"
  ELSE IF tag = "a" THEN "link"
  ELSE IF tag = "br" THEN "break"
  ELSE "span"

\* el.getAttribute(name) || ""
AttrOrEmpty(el, name) == AttrOr(el, name, <<>>)

RECURSIVE importInline(_)
\* The nodes importInline appends to its parent: none for an empty text.
importInline(node) ==
  IF IsText(node)
  THEN (IF node.text # <<>> THEN <<Txt(node.text)>> ELSE <<>>)
  ELSE LET tag == InlineTag(node.tag)
           attrs == IF tag = "link"
                    THEN << <<"href", AttrOrEmpty(node, "href")>> >> ELSE <<>>
       IN  <<Elt(tag, attrs,
                 Flatten([i \in 1..Len(node.kids) |-> importInline(node.kids[i])]))>>

InlineKids(node) == Flatten([i \in 1..Len(node.kids) |-> importInline(node.kids[i])])

HeadingTags == {"h1", "h2", "h3", "h4", "h5", "h6"}

\* tag.slice(1) of h1..h6
HeadingDigit(tag) ==
  CASE tag = "h1" -> "1" [] tag = "h2" -> "2" [] tag = "h3" -> "3"
    [] tag = "h4" -> "4" [] tag = "h5" -> "5" [] tag = "h6" -> "6"

\* /language-([a-z0-9_+-]+)/i on the class attribute: the identifier that
\* follows the first "language-"
LangOf(klass) ==
  LET ix == {i \in 1..(Len(klass) - 1) :
               klass[i] = "language-" /\ klass[i + 1] \notin WS}
  IN  IF ix = {} THEN <<>> ELSE <<klass[SeqMin(ix) + 1]>>

\* text.replace(/\n$/, ""): one trailing newline removed
StripOneNewline(t) ==
  IF t # <<>> /\ t[Len(t)] = "\n" THEN SubSeq(t, 1, Len(t) - 1) ELSE t

\* textContent = t : a text node, unless t is empty
TextKids(t) == IF t = <<>> THEN <<>> ELSE <<Txt(t)>>

\* The list without "p".
BlockTagsButP == {"ul", "ol", "pre", "blockquote", "table"}

BlockTagsOfItem == {"p", "ul", "ol", "pre", "blockquote", "table"}

RECURSIVE importBlock(_)
\* The block importBlock returns, as a sequence: empty for null.
importBlock(node) ==
  IF IsText(node)
  THEN (IF Trim(node.text) = <<>> THEN <<>>
        ELSE <<Elt("paragraph", <<>>, <<Txt(Trim(node.text))>>)>>)
  ELSE LET tag == node.tag IN
  IF tag \in HeadingTags
  THEN <<Elt("heading", << <<"level", <<HeadingDigit(tag)>> >> >>, InlineKids(node))>>
  ELSE IF tag = "p" THEN <<Elt("paragraph", <<>>, InlineKids(node))>>
  ELSE IF tag \in {"ul", "ol"}
  THEN LET lis == SelectSeq(Children(node), LAMBDA c : c.tag = "li")
           item(li) ==
             LET hasBlock == \E i \in 1..Len(li.kids) :
                               IsElt(li.kids[i]) /\ li.kids[i].tag \in BlockTagsOfItem
             IN  IF hasBlock
                 THEN Elt("item", <<>>,
                          Flatten([i \in 1..Len(li.kids) |-> importBlock(li.kids[i])]))
                 ELSE Elt("item", <<>>, <<Elt("paragraph", <<>>, InlineKids(li))>>)
       IN  <<Elt("list",
                 << <<"ordered", IF tag = "ol" THEN <<"true">> ELSE <<"false">> >> >>,
                 Tup([i \in 1..Len(lis) |-> item(lis[i])]))>>
  ELSE IF tag = "pre"
  THEN LET codes == SelectSeq(Descendants(node), LAMBDA e : e.tag = "code")
           klass == IF codes = <<>> THEN <<>> ELSE AttrOrEmpty(codes[1], "class")
           text == IF codes = <<>> THEN TextContent(node) ELSE TextContent(codes[1])
       IN  <<Elt("codeBlock", << <<"lang", LangOf(klass)>> >>,
                 TextKids(StripOneNewline(text)))>>
  ELSE IF tag = "blockquote"
  THEN <<Elt("blockquote", <<>>,
             Flatten([i \in 1..Len(node.kids) |-> importBlock(node.kids[i])]))>>
  ELSE IF tag = "hr" THEN <<Elt("divider", <<>>, <<>>)>>
  ELSE IF tag = "table"
  THEN LET rows == SelectSeq(Descendants(node), LAMBDA e : e.tag = "tr")
           cellsOf(r) == SelectSeq(Descendants(r), LAMBDA e : e.tag \in {"th", "td"})
           row(r) == Elt("row", <<>>,
                         Tup([k \in 1..Len(cellsOf(r)) |->
                                Elt("cell", <<>>, InlineKids(cellsOf(r)[k]))]))
       IN  <<Elt("table", <<>>, Tup([i \in 1..Len(rows) |-> row(rows[i])]))>>
  ELSE IF tag = "img"
  THEN <<Elt("image", << <<"src", AttrOrEmpty(node, "src")>>,
                         <<"alt", AttrOrEmpty(node, "alt")>> >>, <<>>)>>
  ELSE <<Elt("paragraph", <<>>, InlineKids(node))>>

\* The <document> element built from the render tree.
ImportBody(html) ==
  Elt("document", <<>>, Flatten([i \in 1..Len(html) |-> importBlock(html[i])]))

\* The document htmlToNebulaXml builds; now is what nowIso() returns.
NebulaDoc(html, title, now) ==
  Elt("nebula", << <<"version", <<"1.0">> >> >>,
      << Elt("meta", <<>>, << Elt("title", <<>>, TextKids(title)),
                              Elt("updatedAt", <<>>, <<Txt(<<now>>)>>) >>),
         ImportBody(html) >>)

htmlToNebulaXml(html, title, now) == SerializeNode(NebulaDoc(html, title, now))

\* ------------------------------------- DOMParser, "application/xml" (browser)

\* Tokens that cannot be an element or attribute name.
Entities == {"&lt;", "&gt;", "&amp;"}
Letters == {"a", "b", "c", "x"}
IsName(tok) == tok \notin (Single \ Letters) /\ tok \notin Entities

UnescChar(c) ==
  IF c = "&lt;" THEN "<" ELSE IF c = "&gt;" THEN ">"
  ELSE IF c = "&amp;" THEN "&" ELSE c

Unescape(t) == Tup([i \in 1..Len(t) |-> UnescChar(t[i])])

\* Character data and attribute values: no bare "&" (and no "<", which the
\* scan below never leaves in them).
CharDataOk(t) == \A i \in 1..Len(t) : t[i] \notin {"&", "<"}

TrimStart(s) ==
  LET ix == {i \in 1..Len(s) : s[i] \notin WS} IN
  IF ix = {} THEN <<>> ELSE SubSeq(s, SeqMin(ix), Len(s))

Drop(s, n) == SubSeq(s, n + 1, Len(s))

BadAttrs == [ok |-> FALSE, attrs |-> <<>>]

RECURSIVE ParseAttrs(_)
\* The attributes of a start tag, after its name:  S name S? "=" S? '"' value '"'
ParseAttrs(r) ==
  IF Trim(r) = <<>> THEN [ok |-> TRUE, attrs |-> <<>>]
  ELSE IF r[1] \notin WS THEN BadAttrs
  ELSE LET a == TrimStart(r) IN
       IF ~IsName(a[1]) THEN BadAttrs
       ELSE LET b == TrimStart(Drop(a, 1)) IN
            IF b = <<>> \/ b[1] # "=" THEN BadAttrs
            ELSE LET c == TrimStart(Drop(b, 1)) IN
                 IF c = <<>> \/ c[1] # "\"" THEN BadAttrs
                 ELSE LET q == {i \in 2..Len(c) : c[i] = "\""} IN
                      IF q = {} THEN BadAttrs
                      ELSE LET e == SeqMin(q)
                               val == SubSeq(c, 2, e - 1)
                               more == ParseAttrs(Drop(c, e))
                           IN  IF ~CharDataOk(val) \/ ~more.ok
                                  \/ \E i \in 1..Len(more.attrs) :
                                        more.attrs[i][1] = a[1]
                               THEN BadAttrs
                               ELSE [ok |-> TRUE,
                                     attrs |-> << <<a[1], Unescape(val)>> >>
                                               \o more.attrs]

Item(kind, tag, attrs, text) ==
  [kind |-> kind, tag |-> tag, attrs |-> attrs, text |-> text]

BadItem == Item("bad", "", <<>>, <<>>)

\* One tag, given the tokens between its "<" and ">".
TagItem(t) ==
  IF t = <<>> THEN BadItem
  ELSE IF t[1] = "/"
  THEN IF Len(t) >= 2 /\ IsName(t[2]) /\ Trim(Drop(t, 2)) = <<>>
       THEN Item("close", t[2], <<>>, <<>>) ELSE BadItem
  ELSE LET empty == t[Len(t)] = "/"
           body == IF empty THEN SubSeq(t, 1, Len(t) - 1) ELSE t
       IN  IF body = <<>> \/ ~IsName(body[1]) THEN BadItem
           ELSE LET as == ParseAttrs(Drop(body, 1)) IN
                IF ~as.ok THEN BadItem
                ELSE Item(IF empty THEN "empty" ELSE "open", body[1], as.attrs, <<>>)

TextItem(t) ==
  IF CharDataOk(t) THEN Item("text", "#text", <<>>, Unescape(t)) ELSE BadItem

\* The markup items of a text: tags and the character data between them.  A
\* tag runs from a "<" to the first ">" outside a quoted attribute value.
Lex(s) ==
  LET lt == Indices(s, LAMBDA c : c = "<")
      n == Len(lt)
      quotes(p, j) == Cardinality({q \in p..j : s[q] = "\""})
      ends(p) == {j \in (p + 1)..Len(s) : s[j] = ">" /\ quotes(p, j) % 2 = 0}
      stop(k) == IF k = n THEN Len(s) + 1 ELSE lt[k + 1]
      tag(k) ==
        LET es == ends(lt[k]) IN
        IF es = {} \/ SeqMin(es) > stop(k) THEN BadItem
        ELSE TagItem(SubSeq(s, lt[k] + 1, SeqMin(es) - 1))
      after(k) ==
        LET es == ends(lt[k]) IN
        IF es = {} \/ SeqMin(es) > stop(k) THEN <<>>
        ELSE SubSeq(s, SeqMin(es) + 1, stop(k) - 1)
      lead == IF n = 0 THEN s ELSE SubSeq(s, 1, lt[1] - 1)
      seg(t) == IF t = <<>> THEN <<>> ELSE <<TextItem(t)>>
  IN  seg(lead) \o Flatten([k \in 1..n |-> <<tag(k)>> \o seg(after(k))])

\* The nesting depth before item i.
DepthAt(items, i) ==
  Cardinality({k \in 1..(i - 1) : items[k].kind = "open"})
  - Cardinality({k \in 1..(i - 1) : items[k].kind = "close"})

\* The end tag that closes the start tag at i (0 when there is none).
MatchOf(items, i) ==
  LET js == {j \in (i + 1)..Len(items) :
               items[j].kind = "close" /\ DepthAt(items, j) = DepthAt(items, i) + 1}
  IN  IF js = {} THEN 0 ELSE SeqMin(js)

WellFormed(items) ==
  /\ \A i \in 1..Len(items) :
       /\ items[i].kind # "bad"
       /\ items[i].kind = "close" => DepthAt(items, i) >= 1
       /\ items[i].kind = "open" =>
            /\ MatchOf(items, i) # 0
            /\ items[MatchOf(items, i)].tag = items[i].tag
       \* outside the root element: white space only
       /\ (items[i].kind = "text" /\ DepthAt(items, i) = 0) => Trim(items[i].text) = <<>>
  /\ DepthAt(items, Len(items) + 1) = 0
  \* exactly one root element
  /\ Cardinality({i \in 1..Len(items) :
                    items[i].kind \in {"open", "empty"} /\ DepthAt(items, i) = 0}) = 1

RECURSIVE BuildKids(_, _, _, _)
\* The nodes of the items lo..hi that lie at depth d.
BuildKids(items, lo, hi, d) ==
  LET top == SelectSeq(Tup([i \in 1..(hi - lo + 1) |-> lo + i - 1]),
                       LAMBDA i : items[i].kind # "close" /\ DepthAt(items, i) = d)
      node(i) ==
        IF items[i].kind = "text" THEN Txt(items[i].text)
        ELSE IF items[i].kind = "empty" THEN Elt(items[i].tag, items[i].attrs, <<>>)
        ELSE Elt(items[i].tag, items[i].attrs,
                 BuildKids(items, i + 1, MatchOf(items, i) - 1, d + 1))
  IN  Tup([k \in 1..Len(top) |-> node(top[k])])

\* What the browser returns for text that is not well-formed: a document
\* that holds a <parsererror> element.
ParseErrorDoc == Elt("parsererror", <<>>, <<Txt(<<"x">>)>>)

\* DOMParser.parseFromString(s, "application/xml").documentElement
ParseXml(s) ==
  LET items == Lex(s) IN
  IF WellFormed(items)
  THEN LET roots == SelectSeq(BuildKids(items, 1, Len(items), 0), IsElt) IN roots[1]
  ELSE ParseErrorDoc

\* ------------------------------------------------------ nebulaXmlToMarkdown

isXmlParseError(doc) ==
  doc.tag = "parsererror"
  \/ \E i \in 1..Len(Descendants(doc)) : Descendants(doc)[i].tag = "parsererror"

DigitVal(c) ==
  CASE c = "0" -> 0 [] c = "1" -> 1 [] c = "2" -> 2 [] c = "3" -> 3
    [] c = "4" -> 4 [] c = "5" -> 5 [] c = "6" -> 6 [] c = "7" -> 7
    [] c = "8" -> 8 [] c = "9" -> 9 [] OTHER -> -1

RECURSIVE DigitsToInt(_)
DigitsToInt(ds) ==
  IF ds = <<>> THEN 0
  ELSE DigitsToInt(SubSeq(ds, 1, Len(ds) - 1)) * 10 + DigitVal(ds[Len(ds)])

\* parseInt(s, 10): leading white space, a sign, the longest run of digits;
\* NaN when there is no digit.
parseInt(str) ==
  LET t == TrimStart(str)
      neg == t # <<>> /\ t[1] = "-"
      u == IF t # <<>> /\ t[1] \in {"-", "+"} THEN Drop(t, 1) ELSE t
      non == {i \in 1..Len(u) : DigitVal(u[i]) < 0}
      ds == IF non = {} THEN u ELSE SubSeq(u, 1, SeqMin(non) - 1)
  IN  IF ds = <<>> THEN NaN
      ELSE IF neg THEN Num(0 - DigitsToInt(ds)) ELSE Num(DigitsToInt(ds))

\* Math.min and Math.max return NaN when an argument is NaN.
MathMin(a, b) == IF a.nan \/ b.nan THEN NaN ELSE IF a.v < b.v THEN a ELSE b
MathMax(a, b) == IF a.nan \/ b.nan THEN NaN ELSE IF a.v > b.v THEN a ELSE b

clamp(n, min, max) == MathMax(min, MathMin(max, n))

\* inner.replace(/`/g, "\\`")
EscapeBackticks(t) ==
  Flatten([i \in 1..Len(t) |-> IF t[i] = BT THEN <<"\\", BT>> ELSE <<t[i]>>])

RECURSIVE inlineToMd(_)
inlineToMd(n) ==
  IF IsText(n) THEN n.text
  ELSE LET inner == Flatten([i \in 1..Len(n.kids) |-> inlineToMd(n.kids[i])])
           tag == n.tag
       IN  IF tag = "bold" THEN <<"*", "*">> \o inner \o <<"*", "*">>
           ELSE IF tag = "italic" THEN <<"*">> \o inner \o <<"*">>
           ELSE IF tag = "strike" THEN <<"~", "~">> \o inner \o <<"~", "~">>
           ELSE IF tag = "code" THEN <<BT>> \o EscapeBackticks(inner) \o <<BT>>
           ELSE IF tag = "link"
           THEN LET href == Trim(AttrOr(n, "href", <<>>)) IN
                IF href # <<>>
                THEN <<"[">> \o (IF inner # <<>> THEN inner ELSE href)
                     \o <<"]", "(">> \o href \o <<")">>
                ELSE inner
           ELSE IF tag = "break" THEN <<"\n">>
           ELSE inner

\* Array.from(el.childNodes).map(inlineToMd).join("")
InlineOf(el) == Flatten([i \in 1..Len(el.kids) |-> inlineToMd(el.kids[i])])

\* text.replace(/\n+$/, "")
StripNewlines(t) ==
  LET ix == {i \in 1..Len(t) : t[i] # "\n"} IN
  IF ix = {} THEN <<>> ELSE SubSeq(t, 1, SeqMax(ix))

\* "| " + cells.join(" | ") + " |"
TableRow(cells) == <<"|", " ">> \o Join(cells, <<" ", "|", " ">>) \o <<" ", "|">>

\* A list whose counter never moves.
BulletOne(ordered, i) == IF ordered THEN <<"1", ".", " ">> ELSE <<"-", " ">>

\* ordered ? `${i++}. ` : "- ", i being 1 at the first item of each list
Bullet(ordered, i) == IF ordered THEN <<ToString(i), ".", " ">> ELSE <<"-", " ">>

RECURSIVE blockToMd(_)
blockToMd(el) ==
  LET tag == el.tag IN
  IF tag = "heading"
  THEN LET level == clamp(parseInt(AttrOr(el, "level", <<"1">>)), Num(1), Num(6)) IN
       Repeat("#", level) \o <<" ">> \o Trim(InlineOf(el)) \o <<"\n">>
  ELSE IF tag = "paragraph" THEN Trim(InlineOf(el)) \o <<"\n">>
  ELSE IF tag = "divider" THEN <<"-", "-", "-", "\n">>
  ELSE IF tag = "codeBlock"
  THEN LET lang == Trim(AttrOr(el, "lang", <<>>))
           text == StripNewlines(TextContent(el))
       IN  <<"\n", "\n", BT, BT, BT>> \o lang \o <<"\n">> \o text
           \o <<"\n", BT, BT, BT, "\n">>
  ELSE IF tag = "blockquote"
  THEN LET kids == Children(el)
           inner == Join([i \in 1..Len(kids) |-> blockToMd(kids[i])], <<"\n">>)
           lines == Split(inner)
       IN  Join([i \in 1..Len(lines) |->
                   IF Trim(lines[i]) # <<>> THEN <<">", " ">> \o lines[i] ELSE <<">">>],
                <<"\n">>) \o <<"\n">>
  ELSE IF tag = "list"
  THEN LET ordered == AttrOr(el, "ordered", <<"false">>) = <<"true">>
           items == SelectSeq(Children(el), LAMBDA c : c.tag = "item")
           indent(t) == LET ls == Split(t) IN
                        Join([k \in 1..Len(ls) |-> <<" ", " ">> \o ls[k]], <<"\n">>)
           itemMd(i) ==
             LET blocks == Children(items[i])
                 label == IF blocks # <<>> THEN Trim(blockToMd(blocks[1])) ELSE <<>>
                 bullet == Bullet(ordered, i)
                 more == SelectSeq(Tup([k \in 1..(Len(blocks) - 1) |->
                                          Trim(blockToMd(blocks[k + 1]))]),
                                   LAMBDA t : t # <<>>)
                 rest == Join([k \in 1..Len(more) |-> indent(more[k])], <<"\n">>)
             IN  bullet \o label \o (IF rest # <<>> THEN <<"\n">> \o rest ELSE <<>>)
       IN  Join([i \in 1..Len(items) |-> itemMd(i)], <<"\n">>) \o <<"\n">>
  ELSE IF tag = "table"
  THEN LET rows == SelectSeq(Children(el), LAMBDA c : c.tag = "row")
           cellsOf(r) == SelectSeq(Children(r), LAMBDA c : c.tag = "cell")
           grid == Tup([i \in 1..Len(rows) |->
                      Tup([k \in 1..Len(cellsOf(rows[i])) |->
                             Trim(InlineOf(cellsOf(rows[i])[k]))])])
       IN  IF grid = <<>> THEN <<"\n">>
           ELSE LET header == grid[1]
                    sep == Tup([k \in 1..Len(header) |-> <<"-", "-", "-">>])
                    mdRows == <<TableRow(header), TableRow(sep)>>
                              \o Tup([i \in 1..(Len(grid) - 1) |-> TableRow(grid[i + 1])])
                IN  <<"\n">> \o Join(mdRows, <<"\n">>) \o <<"\n">>
  ELSE IF tag = "image"
  THEN LET src == AttrOr(el, "src", <<>>)
           alt == AttrOr(el, "alt", <<>>)
       IN  IF src # <<>>
           THEN <<"!", "[">> \o alt \o <<"]", "(">> \o src \o <<")", "\n">>
           ELSE <<"\n">>
  ELSE LET kids == Children(el) IN
       Join([i \in 1..Len(kids) |-> blockToMd(kids[i])], <<"\n">>) \o <<"\n">>

\* root.querySelector("document"): the first descendant named document
DocNodes(root) == SelectSeq(Descendants(root), LAMBDA e : e.tag = "document")

ErrParse == "XML parse error"
ErrRoot == "Root element must be <nebula>"
ErrDocument == "Missing <document>"

\* The fragments of the top-level blocks, each with its end trimmed.
TopBlocks(docNode) ==
  Tup([i \in 1..Len(Children(docNode)) |-> TrimEnd(blockToMd(Children(docNode)[i]))])

\* The first validation that fails, or NULL.
Validate(xml) ==
  IF isXmlParseError(xml) THEN ErrParse
  ELSE IF xml.tag # "nebula" THEN ErrRoot
  ELSE IF DocNodes(xml) = <<>> THEN ErrDocument
  ELSE NULL

\* The join without the trim.
JoinUntrimmed(bs) == Join(bs, <<"\n", "\n">>) \o <<"\n">>

\* blocks.join("\n\n").trim() + "\n"
JoinBlocks(bs) == Trim(Join(bs, <<"\n", "\n">>)) \o <<"\n">>

\* The walk of the parsed document: the document element, the error and the
\* blocks array.
Walk(xml, error) ==
  [dom |-> xml, error |-> error,
   blocks |-> IF error = NULL THEN TopBlocks(DocNodes(xml)[1]) ELSE <<>>]

WalkOf(xml) == Walk(xml, Validate(xml))

\* What nebulaXmlToMarkdown returns, with the document element and the
\* blocks array it went through.
Emitted(w) ==
  [result |-> [markdown |-> IF w.error = NULL THEN JoinBlocks(w.blocks) ELSE <<>>,
               error |-> w.error],
   dom |-> w.dom, blocks |-> w.blocks]

EmitOf(xmlString) == Emitted(WalkOf(ParseXml(xmlString)))

nebulaXmlToMarkdown(xmlString) == EmitOf(xmlString).result

\* The number of '#' a text starts with.
LeadingHashes(t) ==
  Cardinality({i \in 1..Len(t) : \A j \in 1..i : t[j] = "#"})

\* ------------------------------------------------------ markdownToNebulaXml
\* marked.parse (gfm, breaks) on the part of markdown the editor model uses:
\* ATX headings and paragraphs of plain text, separated by blank lines.

\* up to six '#', then a space or the end of the line
IsAtx(line) ==
  /\ LeadingHashes(TrimStart(line)) \in 1..6
  /\ \/ Len(TrimStart(line)) = LeadingHashes(TrimStart(line))
     \/ TrimStart(line)[LeadingHashes(TrimStart(line)) + 1] = " "

LineKind(line) ==
  IF Trim(line) = <<>> THEN "blank" ELSE IF IsAtx(line) THEN "atx" ELSE "text"

\* The lines where a block starts: a heading, or the first line of a paragraph.
BlockStarts(lines) ==
  SelectSeq(Tup([i \in 1..Len(lines) |-> i]),
            LAMBDA i : \/ LineKind(lines[i]) = "atx"
                       \/ /\ LineKind(lines[i]) = "text"
                          /\ (i = 1 \/ LineKind(lines[i - 1]) # "text"))

\* The last line of the paragraph that starts at line i.
ParagraphEnd(lines, i) ==
  SeqMax({j \in i..Len(lines) : \A k \in i..j : LineKind(lines[k]) = "text"})

HeadingTagOf(n) ==
  CASE n = 1 -> "h1" [] n = 2 -> "h2" [] n = 3 -> "h3"
    [] n = 4 -> "h4" [] n = 5 -> "h5" [] n = 6 -> "h6"

\* <hN>text</hN>
AtxElement(line) ==
  Elt(HeadingTagOf(LeadingHashes(line)), <<>>,
      TextKids(Trim(Drop(line, LeadingHashes(line)))))

\* <p>line<br>line</p>: with breaks, a newline in a paragraph is a <br>
ParagraphElement(lines, i, j) ==
  Elt("p", <<>>,
      Flatten([k \in 1..(j - i + 1) |->
                 (IF k > 1 THEN <<Elt("br", <<>>, <<>>)>> ELSE <<>>)
                 \o <<Txt(Trim(lines[i + k - 1]))>>]))

MarkedBlock(lines, i) ==
  IF LineKind(lines[i]) = "atx" THEN AtxElement(TrimStart(lines[i]))
  ELSE ParagraphElement(lines, i, ParagraphEnd(lines, i))

\* The render tree of the lines: every block is followed by a newline.
MarkedBlocks(lines, starts) ==
  Flatten([k \in 1..Len(starts) |-> <<MarkedBlock(lines, starts[k]), Txt(<<"\n">>)>>])

MarkedLines(lines) == MarkedBlocks(lines, BlockStarts(lines))

\* marked.parse(markdown || ""), sanitized and parsed into the <div>
marked(md) == MarkedLines(Split(md))

\* now is what nowIso() returns during the call
markdownToNebulaXml(md, title, now) == xmlPretty(htmlToNebulaXml(marked(md), title, now))

\* ------------------------------------------------- conversion: the inputs

\* Render elements without and with attributes.
R(tag, kids) == Elt(tag, <<>>, kids)
RA(tag, name, value, kids) == Elt(tag, << <<name, value>> >>, kids)

\* The render blocks a document is drawn from: every block kind the importer
\* knows, the inline tags, text with white space, line breaks and the
\* characters the serializer escapes.
RenderBlocks ==
  { R("h2", <<Txt(<<"a">>), R("strong", <<Txt(<<"b">>)>>)>>),
    R("p", <<Txt(<<"a", " ", "\n", "b", " ">>), R("em", <<Txt(<<"&">>)>>),
             R("del", <<Txt(<<"<">>)>>), R("br", <<>>),
             RA("a", "href", <<"x">>, <<Txt(<<"c">>)>>), R("code", <<Txt(<<"1">>)>>)>>),
    R("ul", <<Txt(<<"\n">>), R("li", <<Txt(<<"a">>)>>),
              R("li", <<R("p", <<Txt(<<"b">>)>>), Txt(<<"\n">>),
                        R("ol", <<R("li", <<Txt(<<"c">>)>>)>>)>>)>>),
    R("pre", <<RA("code", "class", <<"language-", "js">>,
                  <<Txt(<<"a", "\n", " ", "b", "\n">>)>>)>>),
    R("pre", <<R("code", <<Txt(<<"*", "*", "x", "*", "*", "\n">>)>>)>>),
    R("blockquote", <<Txt(<<"\n">>), R("p", <<Txt(<<"a">>)>>), Txt(<<"\n">>)>>),
    R("hr", <<>>),
    R("table", <<R("thead", <<R("tr", <<R("th", <<Txt(<<"a">>)>>)>>)>>),
                 R("tbody", <<R("tr", <<R("td", <<Txt(<<"1">>)>>)>>)>>)>>),
    Elt("img", << <<"src", <<"x">> >>, <<"alt", <<"a">> >> >>, <<>>),
    Txt(<<" ", "b", " ">>),
    R("div", <<R("u", <<Txt(<<"c">>)>>)>>) }

\* The canonical blocks typed XML is drawn from.
XmlBlocks ==
  { R("heading", <<Txt(<<"a">>)>>),
    RA("heading", "level", <<"0">>, <<Txt(<<"a">>)>>),
    RA("heading", "level", <<"3">>, <<Txt(<<"a">>)>>),
    RA("heading", "level", <<"9">>, <<Txt(<<"a">>)>>),
    RA("heading", "level", <<"x">>, <<Txt(<<"a">>)>>),
    R("paragraph", <<Txt(<<"b">>)>>),
    RA("codeBlock", "lang", <<"js">>, <<Txt(<<"c">>)>>),
    R("table", <<R("row", <<R("cell", <<Txt(<<"a">>)>>)>>),
                 R("row", <<R("cell", <<Txt(<<"1">>)>>)>>)>>),
    Elt("image", << <<"src", <<>> >>, <<"alt", <<"a">> >> >>, <<>>),
    Elt("image", << <<"src", <<"x">> >>, <<"alt", <<"a">> >> >>, <<>>),
    R("divider", <<>>),
    RA("list", "ordered", <<"false">>, <<R("item", <<R("paragraph", <<Txt(<<"a">>)>>)>>)>>) }

\* Sequences of at most MaxBlocks members of S.
SeqsUpTo(S) == UNION {[1..n -> S] : n \in 0..MaxBlocks}

\* Typed XML that is not a canonical document: malformed text, other roots,
\* no <document>, well-formed text holding an element named parsererror, a
\* <document> inside <meta>, and documents with unknown elements and
\* attributes.
OddXml ==
  { <<>>,
    <<"<", "nebula", ">", "<", "document", ">">>,
    <<"<", "nebula", ">", "<", "/", "document", ">">>,
    <<"<", "notnebula", ">", "<", "document", "/", ">", "<", "/", "notnebula", ">">>,
    <<"<", "notnebula", "/", ">">>,
    <<"<", "nebula", ">", "<", "meta", "/", ">", "<", "/", "nebula", ">">>,
    <<"<", "nebula", "/", ">">>,
    <<"<", "notnebula", ">", "<", "parsererror", "/", ">", "<", "/", "notnebula", ">">>,
    <<"<", "nebula", ">", "<", "meta", ">", "<", "document", "/", ">",
      "<", "/", "meta", ">", "<", "/", "nebula", ">">>,
    <<"<", "nebula", ">", "<", "document", ">", "<", "parsererror", "/", ">",
      "<", "/", "document", ">", "<", "/", "nebula", ">">>,
    <<"<", "nebula", " ", "foo", "=", "\"", "1", "\"", ">", "<", "document", ">",
      "<", "foo", " ", "bar", "=", "\"", "x", "\"", ">",
      "<", "paragraph", ">", "a", "<", "/", "paragraph", ">",
      "<", "/", "foo", ">", "<", "paragraph", ">", "<", "foo", ">", "b",
      "<", "/", "foo", ">", "<", "/", "paragraph", ">",
      "<", "/", "document", ">", "<", "/", "nebula", ">">>,
    <<"<", "nebula", ">", "<", "meta", ">", "<", "document", ">",
      "<", "paragraph", ">", "x", "<", "/", "paragraph", ">",
      "<", "/", "document", ">", "<", "/", "meta", ">",
      "<", "document", ">", "<", "paragraph", ">", "b", "<", "/", "paragraph", ">",
      "<", "/", "document", ">", "<", "/", "nebula", ">">> }

\* The canonical text of a document with the given blocks.
XmlOfBlocks(bs) ==
  SerializeNode(Elt("nebula", <<>>, <<Elt("document", <<>>, bs)>>))

\* An <item> whose label is the paragraph t, followed by the blocks more.
ItemOf(t, more) == R("item", <<R("paragraph", <<Txt(t)>>)>> \o more)

\* Lists: ordered ones of three items and with other attributes, a nested
\* ordered list, a child that is no item, and lists that are not ordered
\* (ordered="false", no attribute, another value).
ListBlocks ==
  { RA("list", "ordered", <<"true">>,
       <<ItemOf(<<"a">>, <<>>), ItemOf(<<"b">>, <<>>), ItemOf(<<"c">>, <<>>)>>),
    Elt("list", << <<"level", <<"3">> >>, <<"ordered", <<"true">> >> >>,
        <<ItemOf(<<"a">>, <<>>),
          ItemOf(<<"b">>, <<RA("list", "ordered", <<"true">>,
                               <<ItemOf(<<"c">>, <<>>), ItemOf(<<"x">>, <<>>)>>)>>),
          ItemOf(<<"c">>, <<>>)>>),
    RA("list", "ordered", <<"true">>,
       <<ItemOf(<<"a">>, <<>>), R("paragraph", <<Txt(<<"x">>)>>), ItemOf(<<"b">>, <<>>)>>),
    RA("list", "ordered", <<"false">>, <<ItemOf(<<"a">>, <<>>), ItemOf(<<"b">>, <<>>)>>),
    R("list", <<ItemOf(<<"a">>, <<>>), ItemOf(<<"b">>, <<>>)>>),
    RA("list", "ordered", <<"yes">>, <<ItemOf(<<"a">>, <<>>), ItemOf(<<"b">>, <<>>)>>) }

TypedXml ==
  OddXml \cup {XmlOfBlocks(bs) : bs \in SeqsUpTo(XmlBlocks)}
         \cup {XmlOfBlocks(<<b>>) : b \in ListBlocks}

ConvTitle == <<"a">>
ConvNow == "0"

\* Rendered lists: items of inline content only, items holding a block next
\* to bare text and inline elements, an item of white space, an empty item.
RenderLists ==
  { R("ol", <<R("li", <<Txt(<<"a">>), R("strong", <<Txt(<<"b">>)>>), R("br", <<>>)>>),
              R("li", <<R("p", <<Txt(<<"a">>)>>), Txt(<<" ", "b">>),
                        R("em", <<Txt(<<"c">>)>>), Txt(<<" ">>)>>)>>),
    R("ul", <<R("li", <<R("pre", <<R("code", <<Txt(<<"x">>)>>)>>)>>),
              R("li", <<>>),
              R("li", <<Txt(<<" ">>)>>),
              R("li", <<R("u", <<Txt(<<"c">>)>>),
                        R("ul", <<R("li", <<Txt(<<"a">>)>>)>>)>>)>>) }

HtmlDocs == SeqsUpTo(RenderBlocks) \cup {<<b>> : b \in RenderLists}

\* ------------------------------------------------------------------ state

\* The conversion under test: its input, how far it went, and its outputs.
VARIABLES source, html, typed, stage, xmlOut, pretty, pretty2, dom, blocks, result

\* FileManagerProvider: files, currentFileId.  Nebula: docTitle, markdown,
\* xml, dirty, xmlError.  timers are the pending setTimeout calls of the
\* auto-save effect and cleanup the timer its cleanup will clear.  clock is
\* the time in ms and lastChange the time at which markdown, xml, docTitle,
\* dirty or the current file last changed.
VARIABLES files, currentFileId, docTitle, markdown, xml, dirty, xmlError,
          timers, cleanup, clock, lastChange

\* Nebula: history, the snapshots of the History tab.
VARIABLE history

\* A function of the editor under test: its name, its input and its output.
VARIABLES fn, input, output

convVars == <<source, html, typed, stage, xmlOut, pretty, pretty2, dom, blocks, result>>

edVars == <<files, currentFileId, docTitle, markdown, xml, dirty, xmlError,
            timers, cleanup, clock, lastChange, history>>

toolVars == <<fn, input, output>>

vars == <<convVars, edVars, toolVars>>

NoResult == [markdown |-> <<>>, error |-> NULL]

\* Nothing converted yet.
ConvFresh ==
  /\ xmlOut = <<>> /\ pretty = <<>> /\ pretty2 = <<>>
  /\ dom = Txt(<<>>) /\ blocks = <<>> /\ result = NoResult

\* No conversion under test.
ConvIdle ==
  /\ source = "none" /\ html = <<>> /\ typed = <<>> /\ stage = "idle"
  /\ ConvFresh

\* No editor.
EditorIdle ==
  /\ files = <<>> /\ currentFileId = 0
  /\ docTitle = <<>> /\ markdown = <<>> /\ xml = <<>>
  /\ dirty = FALSE /\ xmlError = NULL
  /\ timers = {} /\ cleanup = 0
  /\ clock = 0 /\ lastChange = 0
  /\ history = <<>>

\* No function under test.
ToolIdle == fn = "none" /\ input = <<>> /\ output = <<>>

\* ---------------------------------------------------- conversion: actions

\* A render tree to import, or XML text typed or imported by the user.
ConvInit ==
  /\ \/ source = "html" /\ html \in HtmlDocs /\ typed = <<>>
     \/ source = "typed" /\ html = <<>> /\ typed \in TypedXml
  /\ stage = "input"
  /\ ConvFresh
  /\ EditorIdle
  /\ ToolIdle

\* htmlToNebulaXml on the render tree
Import ==
  /\ source = "html" /\ stage = "input"
  /\ xmlOut' = htmlToNebulaXml(html, ConvTitle, ConvNow)
  /\ stage' = "imported"
  /\ UNCHANGED <<source, html, typed, pretty, pretty2, dom, blocks, result, edVars, toolVars>>

\* the xmlPretty pass that ends markdownToNebulaXml
Pretty ==
  /\ stage = "imported"
  /\ pretty' = xmlPretty(xmlOut)
  /\ stage' = "pretty"
  /\ UNCHANGED <<source, html, typed, xmlOut, pretty2, dom, blocks, result, edVars, toolVars>>

\* xmlPretty on text that is already pretty
PrettyAgain ==
  /\ stage = "pretty"
  /\ pretty2' = xmlPretty(pretty)
  /\ stage' = "pretty2"
  /\ UNCHANGED <<source, html, typed, xmlOut, pretty, dom, blocks, result, edVars, toolVars>>

\* The emitter's result e enters the state.
Emitting(e) == result' = e.result /\ dom' = e.dom /\ blocks' = e.blocks

\* nebulaXmlToMarkdown on the pretty text of an imported tree
Emit ==
  /\ stage = "pretty2"
  /\ Emitting(EmitOf(pretty))
  /\ stage' = "emitted"
  /\ UNCHANGED <<source, html, typed, xmlOut, pretty, pretty2, edVars, toolVars>>

\* nebulaXmlToMarkdown on typed text
EmitTyped ==
  /\ source = "typed" /\ stage = "input"
  /\ Emitting(EmitOf(typed))
  /\ stage' = "emitted"
  /\ UNCHANGED <<source, html, typed, xmlOut, pretty, pretty2, edVars, toolVars>>

ConvNext == Import \/ Pretty \/ PrettyAgain \/ Emit \/ EmitTyped

SpecConv == ConvInit /\ [][ConvNext]_vars

\* ------------------------------------------------------ editor: the inputs

\* The constant text, abridged to its first line.
DEFAULT_MD == <<"#", " ", "Nebula", "\n">>

\* createDefaultFile: the name and the markdown of the first file
DefaultName == <<"Untitled", " ", "Document">>
DefaultFileMd ==
  <<"#", " ", "Welcome", " ", "to", " ", "Nebula", "\n", "\n",
    "Start", " ", "editing", ".", ".", ".">>

\* setTimeout(..., 1000) of the auto-save effect, in ms
AutoSaveDelay == 1000

\* Time advances in steps of half the delay, up to MaxTicks steps.
TickMs == AutoSaveDelay \div 2
MaxClock == MaxTicks * TickMs

\* Text typed in the markdown editor.
TypedMarkdown == { <<"b", "\n">> }

\* What turndown makes of the visual editor's HTML.
VisualMarkdown == { <<"b">> }

\* Titles typed in the title input; names of created files.
Titles == { <<"a">> }

\* Text typed in the XML editor or imported from a file: malformed, another
\* root, and a document with the markdown of TypedMarkdown.
XmlMalformed == <<"<", "nebula", ">">>
XmlOtherRoot == <<"<", "notnebula", "/", ">">>
XmlParagraph == XmlOfBlocks(<<R("paragraph", <<Txt(<<"b">>)>>)>>)
EditorXml == {XmlMalformed, XmlOtherRoot, XmlParagraph}

\* ------------------------------------------------------- editor: the code

\* nowIso()
Now == ToString(clock)

\* files.find(f => f.id === id)
FileById(fs, id) == fs[CHOOSE i \in 1..Len(fs) : fs[i].id = id]

HasFile(fs, id) == \E i \in 1..Len(fs) : fs[i].id = id

\* uuidv4(): an id no file has
FreshFileId(fs) == CHOOSE n \in 1..(Len(fs) + 1) : ~HasFile(fs, n)

\* updateFile writing the name and the markdown only
updateFileNoXml(fs, id, name, md, x) ==
  Tup([i \in 1..Len(fs) |->
         IF fs[i].id = id
         THEN [fs[i] EXCEPT !.name = name, !.markdown = md]
         ELSE fs[i]])

\* updateFile(id, {name, markdown, xml}); of a file record the model keeps
\* id, name, markdown and xml
updateFile(fs, id, name, md, x) ==
  Tup([i \in 1..Len(fs) |->
         IF fs[i].id = id
         THEN [fs[i] EXCEPT !.name = name, !.markdown = md, !.xml = x]
         ELSE fs[i]])

\* createFile(name): the new file comes first
NewFile(fs, name) ==
  [id |-> FreshFileId(fs), name |-> IF name = <<>> THEN DefaultName ELSE name,
   markdown |-> <<>>, xml |-> <<>>]

\* currentFile.markdown || DEFAULT_MD
MarkdownOrDefault(md) == IF md = <<>> THEN DEFAULT_MD ELSE md

\* The XML sync effect, for the state (title, md, x, e) a handler or the load
\* effect left: it runs when markdown or docTitle changed.
Synced(title, md, x, e) ==
  IF md # markdown \/ title # docTitle
  THEN [xml |-> markdownToNebulaXml(md, title, Now), xmlError |-> NULL]
  ELSE [xml |-> x, xmlError |-> e]

\* A cleanup that clears nothing.
KeepTimer(ts, id) == ts

\* clearTimeout(timeoutId) in the cleanup of the auto-save effect
ClearTimer(ts, id) == {t \in ts : t.id # id}

\* setTimeout returns an id no pending timer has
FreshTimerId(ts) ==
  CHOOSE n \in 1..(Cardinality(ts) + 1) : \A t \in ts : t.id # n

\* The timer the auto-save effect starts: it captures the values of its render.
NewTimer(ts, cur, title, md, x) ==
  [id |-> FreshTimerId(ts), fileId |-> cur, name |-> title, markdown |-> md,
   xml |-> x, due |-> clock + AutoSaveDelay]

\* The auto-save effect runs when one of its dependencies changed: markdown,
\* xml, docTitle, dirty, or currentFile and updateFile, which change with every
\* render of the provider.
DepsChanged(title, md, x, d, provider) ==
  provider \/ <<md, x, title, d>> # <<markdown, xml, docTitle, dirty>>

\* The auto-save effect on the pending timers ts: its cleanup, then a timer if
\* there is a current file and the document is dirty.
AutoSaveEffect(ts, title, md, x, d, cur, provider) ==
  IF DepsChanged(title, md, x, d, provider)
  THEN IF cur # 0 /\ d
       THEN /\ timers' = ClearTimer(ts, cleanup)
                           \cup {NewTimer(ClearTimer(ts, cleanup), cur, title, md, x)}
            /\ cleanup' = FreshTimerId(ClearTimer(ts, cleanup))
       ELSE /\ timers' = ClearTimer(ts, cleanup)
            /\ cleanup' = 0
  ELSE /\ timers' = ts
       /\ cleanup' = cleanup

\* The state once the effects have settled: s is what the XML sync effect left.
Settle(ts, title, md, s, d, fs, cur, provider) ==
  /\ docTitle' = title /\ markdown' = md /\ dirty' = d
  /\ xml' = s.xml /\ xmlError' = s.xmlError
  /\ files' = fs /\ currentFileId' = cur
  /\ AutoSaveEffect(ts, title, md, s.xml, d, cur, provider)
  /\ lastChange' = IF <<title, md, s.xml, d, cur>>
                        # <<docTitle, markdown, xml, dirty, currentFileId>>
                    THEN clock ELSE lastChange
  /\ UNCHANGED <<clock, history, convVars, toolVars>>

\* A handler of Nebula set (docTitle, markdown, xml, dirty, xmlError).
EditorSet(title, md, x, d, e) ==
  Settle(timers, title, md, Synced(title, md, x, e), d, files, currentFileId, FALSE)

\* A load effect that leaves the editor as it is.
KeepEditor(ts, f, fs) ==
  Settle(ts, docTitle, markdown, [xml |-> xml, xmlError |-> xmlError],
         dirty, fs, f.id, TRUE)

\* The load effect: the current file's id changed, to that of f.
LoadFile(ts, f, fs) ==
  Settle(ts, f.name, MarkdownOrDefault(f.markdown),
         Synced(f.name, MarkdownOrDefault(f.markdown), f.xml, xmlError),
         FALSE, fs, f.id, TRUE)

\* The provider set (files, currentFileId); d is the dirty flag the caller left.
ProviderSet(ts, fs, cur, d) ==
  IF cur # currentFileId
  THEN LoadFile(ts, FileById(fs, cur), fs)
  ELSE Settle(ts, docTitle, markdown, [xml |-> xml, xmlError |-> xmlError],
              d, fs, cur, TRUE)

\* The user acts while there is time left for a timer to fire.
CanAct == clock + AutoSaveDelay <= MaxClock

\* ------------------------------------------------------- editor: actions

\* After the mount effects: the provider created the default file, the load
\* effect loaded it and the XML sync effect ran.
Init ==
  /\ files = <<[id |-> 1, name |-> DefaultName, markdown |-> DefaultFileMd,
                xml |-> <<>>]>>
  /\ currentFileId = 1
  /\ docTitle = DefaultName
  /\ markdown = DefaultFileMd
  /\ xml = markdownToNebulaXml(DefaultFileMd, DefaultName, "0")
  /\ dirty = FALSE /\ xmlError = NULL
  /\ timers = {} /\ cleanup = 0
  /\ clock = 0 /\ lastChange = 0
  /\ history = <<>>
  /\ ConvIdle
  /\ ToolIdle

\* What a handler of Nebula leaves in (docTitle, markdown, xml, dirty,
\* xmlError).
Handled(title, md, x, d, e) ==
  [title |-> title, md |-> md, x |-> x, d |-> d, e |-> e]

Apply(h) == EditorSet(h.title, h.md, h.x, h.d, h.e)

\* md.endsWith("\n") ? md : md + "\n"
EnsureNewline(md) ==
  IF md # <<>> /\ md[Len(md)] = "\n" THEN md ELSE md \o <<"\n">>

\* markdown editor onChange
EditMarkdown ==
  \E val \in TypedMarkdown :
    CanAct /\ Apply(Handled(docTitle, val, xml, TRUE, xmlError))

\* visual editor onInput / onBlur; md is what turndown returns
EditVisual ==
  \E md \in VisualMarkdown :
    CanAct /\ Apply(Handled(docTitle, EnsureNewline(md), xml, TRUE, xmlError))

\* title input onChange
EditTitle ==
  \E t \in Titles :
    CanAct /\ Apply(Handled(t, markdown, xml, TRUE, xmlError))

\* addComment / deleteComment: of the state modelled here, they set dirty
AddComment ==
  CanAct /\ Apply(Handled(docTitle, markdown, xml, TRUE, xmlError))

\* An onChange that marks the document dirty whatever the result.
XmlChangedDirty(next, r) ==
  IF r.error # NULL
  THEN Handled(docTitle, markdown, next, TRUE, r.error)
  ELSE Handled(docTitle, r.markdown, next, TRUE, NULL)

\* XML editor onChange, r being nebulaXmlToMarkdown(next)
XmlChanged(next, r) ==
  IF r.error # NULL
  THEN Handled(docTitle, markdown, next, dirty, r.error)
  ELSE Handled(docTitle, r.markdown, next, TRUE, NULL)

EditXml ==
  \E next \in EditorXml :
    CanAct /\ Apply(XmlChanged(next, nebulaXmlToMarkdown(next)))

\* importFile of a file whose name ends in .xml or includes nebula, r being
\* nebulaXmlToMarkdown(text)
XmlImported(text, r) ==
  IF r.error # NULL
  THEN Handled(docTitle, markdown, xmlPretty(text), dirty, r.error)
  ELSE Handled(docTitle, r.markdown, xml, TRUE, xmlError)

\* Files dropped on the import input, <<name, text>>: an XML file, a markdown
\* file, and a markdown file with "nebula" in its name. The names are in
\* lower case, as file.name.toLowerCase() leaves them.
ImportFiles ==
  ({<<"a", ".", "x", "m", "l">>} \X EditorXml)
    \cup ({<<"a", ".", "m", "d">>,
           <<"n", "e", "b", "u", "l", "a", ".", "m", "d">>} \X TypedMarkdown)

\* name.endsWith(".xml") || name.includes("nebula")
IsXmlName(name) ==
  LET endsWith(p) == Len(name) >= Len(p)
                     /\ SubSeq(name, Len(name) - Len(p) + 1, Len(name)) = p
      includes(p) == \E i \in 0..(Len(name) - Len(p)) :
                       SubSeq(name, i + 1, i + Len(p)) = p
  IN  endsWith(<<".", "x", "m", "l">>) \/ includes(<<"n", "e", "b", "u", "l", "a">>)

\* importFile, isXml being IsXmlName of the file's name
Imported(isXml, text) ==
  IF isXml THEN XmlImported(text, nebulaXmlToMarkdown(text))
  ELSE Handled(docTitle, text, xml, TRUE, xmlError)

ImportFile ==
  \E f \in ImportFiles :
    CanAct /\ Apply(Imported(IsXmlName(f[1]), f[2]))

\* handleSave
HandleSave ==
  /\ CanAct /\ currentFileId # 0
  /\ ProviderSet(timers, updateFile(files, currentFileId, docTitle, markdown, xml),
                 currentFileId, FALSE)

\* The callback of a timer of the auto-save effect, once its delay has passed.
TimerFire ==
  \E t \in timers :
    /\ clock >= t.due
    /\ ProviderSet(timers \ {t},
                   updateFile(files, t.fileId, t.name, t.markdown, t.xml),
                   currentFileId, FALSE)

\* createFile(name)
CreateFile ==
  \E name \in Titles :
    /\ CanAct /\ Len(files) < MaxFiles
    /\ ProviderSet(timers, <<NewFile(files, name)>> \o files,
                   FreshFileId(files), dirty)

\* openFile(id) of another file
OpenFile ==
  \E id \in 1..MaxFiles :
    /\ CanAct /\ HasFile(files, id) /\ id # currentFileId
    /\ ProviderSet(timers, files, id, dirty)

\* createDefaultFile, with the id uuidv4() gave
createDefaultFile(id) ==
  [id |-> id, name |-> DefaultName, markdown |-> DefaultFileMd, xml |-> <<>>]

\* A deleteFile that makes no default file.
deleteFileOnly(fs, id, cur) ==
  [files |-> SelectSeq(fs, LAMBDA f : f.id # id), currentFileId |-> cur]

\* deleteFile(id), cur being the currentFileId of its render: the files and
\* the current file it leaves.
deleteFile(fs, id, cur) ==
  LET filtered == SelectSeq(fs, LAMBDA f : f.id # id) IN
  IF id # cur THEN [files |-> filtered, currentFileId |-> cur]
  ELSE IF filtered # <<>> THEN [files |-> filtered, currentFileId |-> filtered[1].id]
  ELSE [files |-> <<createDefaultFile(FreshFileId(fs))>>,
        currentFileId |-> FreshFileId(fs)]

\* deleteFile(id), of any id
DeleteFile ==
  \E id \in 1..MaxFiles :
    /\ CanAct
    /\ ProviderSet(timers, deleteFile(files, id, currentFileId).files,
                   deleteFile(files, id, currentFileId).currentFileId, dirty)

\* `${file.name} (Copy)`
CopyName(name) == name \o <<" (Copy)">>

\* The number of times " (Copy)" was appended to the name.
Copies(name) == Cardinality({i \in 1..Len(name) : name[i] = " (Copy)"})

\* duplicateFile(id): the copy comes first and the current file stays
DuplicateFile ==
  \E id \in 1..MaxFiles :
    /\ CanAct /\ HasFile(files, id) /\ Len(files) < MaxFiles
    /\ Copies(FileById(files, id).name) < MaxCopies
    /\ ProviderSet(timers,
                   <<[FileById(files, id) EXCEPT !.id = FreshFileId(files),
                                                 !.name = CopyName(@)]>> \o files,
                   currentFileId, dirty)

\* renameFile(id, newName) is updateFile(id, {name: newName})
renameFile(fs, id, newName) ==
  Tup([i \in 1..Len(fs) |->
         IF fs[i].id = id THEN [fs[i] EXCEPT !.name = newName] ELSE fs[i]])

RenameFile ==
  \E id \in 1..MaxFiles, newName \in Titles :
    /\ CanAct
    /\ ProviderSet(timers, renameFile(files, id, newName), currentFileId, dirty)

\* moveFile(id, folder) is updateFile(id, {folder}): of the fields the model
\* keeps it changes none, and the provider renders again with a new files
\* array.
MoveFile ==
  CanAct /\ ProviderSet(timers, files, currentFileId, dirty)

\* deleteFolder(name): setFolders, then setFiles with the folder taken off
\* every file that had it; the model keeps neither folders nor folder.
DeleteFolder ==
  CanAct /\ ProviderSet(timers, files, currentFileId, dirty)

\* What localStorage holds when the provider mounts: whether there is a
\* list of files, the list, and the current id, 0 when there is none.
\* Nothing, an empty list, a list with its current id, a list without a
\* current id, a list with the id of a file it does not hold.
SavedStates ==
  { <<FALSE, <<>>, 0>>, <<TRUE, <<>>, 1>>,
    <<TRUE, <<createDefaultFile(1)>>, 1>>, <<TRUE, <<createDefaultFile(1)>>, 2>>,
    <<TRUE, <<createDefaultFile(1)>>, 0>>,
    <<TRUE, <<[createDefaultFile(2) EXCEPT !.markdown = <<>>], createDefaultFile(1)>>, 2>>,
    <<TRUE, <<[createDefaultFile(2) EXCEPT !.markdown = <<>>], createDefaultFile(1)>>, 3>> }

\* The mount effect of the provider: the files and the current file it sets.
Mounted(hasFiles, savedFiles, savedCurrentId) ==
  IF ~hasFiles
  THEN [files |-> <<createDefaultFile(1)>>, currentFileId |-> 1]
  ELSE IF savedCurrentId # 0 /\ HasFile(savedFiles, savedCurrentId)
  THEN [files |-> savedFiles, currentFileId |-> savedCurrentId]
  ELSE IF Len(savedFiles) > 0
  THEN [files |-> savedFiles, currentFileId |-> savedFiles[1].id]
  ELSE [files |-> <<createDefaultFile(1)>>, currentFileId |-> 1]

\* After the mount effects, for what localStorage held: the load effect
\* loaded the current file and the XML sync effect ran.
FilesInit ==
  /\ \E saved \in SavedStates :
       /\ files = Mounted(saved[1], saved[2], saved[3]).files
       /\ currentFileId = Mounted(saved[1], saved[2], saved[3]).currentFileId
  /\ docTitle = FileById(files, currentFileId).name
  /\ markdown = MarkdownOrDefault(FileById(files, currentFileId).markdown)
  /\ xml = markdownToNebulaXml(markdown, docTitle, "0")
  /\ dirty = FALSE /\ xmlError = NULL
  /\ timers = {} /\ cleanup = 0
  /\ clock = 0 /\ lastChange = 0
  /\ history = <<>>
  /\ ConvIdle
  /\ ToolIdle

\* Time passes; a timer that is due fires before more time passes.
Tick ==
  /\ clock + TickMs <= MaxClock
  /\ \A t \in timers : t.due > clock
  /\ clock' = clock + TickMs
  /\ UNCHANGED <<files, currentFileId, docTitle, markdown, xml, dirty, xmlError,
                 timers, cleanup, lastChange, history, convVars, toolVars>>

Next ==
  \/ EditMarkdown \/ EditVisual \/ EditTitle \/ AddComment \/ EditXml \/ ImportFile
  \/ HandleSave \/ CreateFile \/ OpenFile \/ TimerFire \/ Tick

Spec == Init /\ [][Next]_vars

\* The file manager at work under the editor: the operations of the sidebar,
\* with the edits of the markdown view and the saves.
FilesNext ==
  \/ CreateFile \/ OpenFile \/ DeleteFile \/ DuplicateFile \/ RenameFile
  \/ MoveFile \/ DeleteFolder
  \/ EditMarkdown \/ HandleSave \/ TimerFire \/ Tick

SpecFiles == FilesInit /\ [][FilesNext]_vars

\* Time passes and due timers fire.
FairSpec == Spec /\ WF_vars(Tick) /\ WF_vars(TimerFire)

\* ------------------------------------------------- conversion: properties

\* s holds p as a contiguous part
Contains(s, p) ==
  \E i \in 0..(Len(s) - Len(p)) : SubSeq(s, i + 1, i + Len(p)) = p

\* Every run of white space becomes one space.
Collapse(t) ==
  LET ix == SelectSeq(Tup([i \in 1..Len(t) |-> i]),
                      LAMBDA i : t[i] \notin WS \/ i = 1 \/ t[i - 1] \notin WS)
  IN  Tup([k \in 1..Len(ix) |-> IF t[ix[k]] \in WS THEN " " ELSE t[ix[k]]])

RECURSIVE NormNode(_)
\* White space normalization of a tree: text that is only white space is
\* dropped, runs of white space are collapsed.
NormNode(n) ==
  IF IsText(n) THEN Txt(Collapse(n.text))
  ELSE LET ks == SelectSeq(n.kids, LAMBDA k : IsElt(k) \/ Trim(k.text) # <<>>)
       IN  Elt(n.tag, n.attrs, Tup([i \in 1..Len(ks) |-> NormNode(ks[i])]))

\* C1: xmlPretty is idempotent: pretty-printing the pretty text of an
\* imported document (the output of markdownToNebulaXml) changes nothing.
C1_PrettyIdempotent ==
  stage \in {"pretty2", "emitted"} => pretty2 = pretty

\* C2: the tree nebulaXmlToMarkdown rebuilds from the pretty-printed XML of
\* an imported render tree is the imported block/inline tree, modulo white
\* space normalization: nothing dropped, added, reordered or changed in kind.
C2_RoundTrip ==
  (source = "html" /\ stage = "emitted") =>
    /\ result.error = NULL
    /\ NormNode(DocNodes(dom)[1]) = NormNode(ImportBody(html))

\* A list followed by a table has been imported, printed, parsed and emitted.
C2_Witness ==
  /\ source = "html" /\ stage = "emitted" /\ Len(html) = 2
  /\ IsElt(html[1]) /\ html[1].tag = "ul"
  /\ IsElt(html[2]) /\ html[2].tag = "table"
  /\ Len(blocks) = 2

\* C4: validation reports the first failure in the order well-formedness,
\* root name, document presence: malformed text gives the parse error,
\* well-formed text with another root the root error, a nebula root without
\* a document the missing-document error.
C4_ValidationOrder ==
  (source = "typed" /\ stage = "emitted") =>
    IF ~WellFormed(Lex(typed)) THEN result.error = ErrParse
    ELSE IF dom.tag # "nebula" THEN result.error = ErrRoot
    ELSE IF DocNodes(dom) = <<>> THEN result.error = ErrDocument
    ELSE TRUE

\* C5: the text of every imported code block (minus its one trailing
\* newline) stands verbatim between the fences of the emitted markdown.
C5_CodeVerbatim ==
  (source = "html" /\ stage = "emitted") =>
    \A k \in 1..Len(html) :
      (IsElt(html[k]) /\ html[k].tag = "pre") =>
        Contains(result.markdown,
                 <<"\n">> \o StripOneNewline(TextContent(html[k]))
                          \o <<"\n", BT, BT, BT>>)

\* C9: whatever its level attribute, a heading's fragment starts with 1 to 6
\* '#' and a space: 6 for level 9, 1 for level 0 and for no attribute.
C9_HeadingHashes ==
  (source = "typed" /\ stage = "emitted" /\ result.error = NULL) =>
    \A k \in 1..Len(blocks) :
      LET el == Children(DocNodes(dom)[1])[k] IN
      el.tag = "heading" =>
        /\ LeadingHashes(blocks[k]) \in 1..6
        /\ blocks[k][LeadingHashes(blocks[k]) + 1] = " "
        /\ AttrOr(el, "level", <<>>) = <<"9">> => LeadingHashes(blocks[k]) = 6
        /\ AttrOr(el, "level", <<>>) \in {<<"0">>, <<>>} => LeadingHashes(blocks[k]) = 1

\* A fragment without the newlines it starts with.
DropLeadingNewlines(t) ==
  LET ix == {i \in 1..Len(t) : t[i] # "\n"} IN
  IF ix = {} THEN <<>> ELSE SubSeq(t, SeqMin(ix), Len(t))

\* C10: in the emitted markdown consecutive top-level blocks are separated
\* by exactly one blank line: the markdown is the fragments of the blocks
\* (those that are not blank, from their first line that is not blank) joined
\* with one blank line, trimmed, then a newline.
C10_OneBlankLine ==
  (stage = "emitted" /\ result.error = NULL) =>
    result.markdown
      = Trim(Join(SelectSeq(Tup([k \in 1..Len(blocks) |-> DropLeadingNewlines(blocks[k])]),
                            LAMBDA f : f # <<>>),
                  <<"\n", "\n">>)) \o <<"\n">>

\* ----------------------------------------------------- editor: properties

\* The times the clock takes.
ClockValues == {k * TickMs : k \in 0..MaxTicks}

\* The record of the current file holds (docTitle, markdown, xml).
CurrentSaved ==
  /\ HasFile(files, currentFileId)
  /\ FileById(files, currentFileId).name = docTitle
  /\ FileById(files, currentFileId).markdown = markdown
  /\ FileById(files, currentFileId).xml = xml

\* A step in which the XML editor's onChange got the error r.error for next.
FailedEdit(next, r) ==
  r.error # NULL /\ CanAct /\ Apply(XmlChanged(next, r))

\* A step in which importFile got the error r.error for the text of an XML file.
FailedImport(text, r) ==
  r.error # NULL /\ CanAct /\ Apply(XmlImported(text, r))

\* Of the editor's state only xml and xmlError changed; they are x and e.
OnlyXmlChanged(x, e) ==
  /\ markdown' = markdown /\ dirty' = dirty /\ docTitle' = docTitle
  /\ files' = files /\ currentFileId' = currentFileId
  /\ xml' = x
  /\ xmlError' = e /\ e \in {ErrParse, ErrRoot, ErrDocument}

\* A failed step for text, r being nebulaXmlToMarkdown(text), changes only
\* xml and xmlError.
FailedStepsKeep(text, r) ==
  /\ FailedEdit(text, r) => OnlyXmlChanged(text, r.error)
  /\ FailedImport(text, r) => OnlyXmlChanged(xmlPretty(text), r.error)

\* C3: when nebulaXmlToMarkdown returns an error for text typed in the XML
\* view or for an imported file, markdown and dirty (and title and files) are
\* left unchanged; xml becomes the text (pretty-printed on import) and
\* xmlError the error message.
C3_FailedParse ==
  [][\A text \in EditorXml :
       FailedStepsKeep(text, nebulaXmlToMarkdown(text))]_vars

\* Text with another root was typed in the XML view of a dirty document.
C3_Witness ==
  /\ xmlError = ErrRoot /\ xml = XmlOtherRoot
  /\ dirty /\ markdown = <<"b", "\n">>

\* C6: at most one auto-save timer is pending, and it is the one the last
\* run of the effect started: it holds the current file, title, markdown and
\* xml and is due a full delay after their last change; a timer fires only
\* once the delay has passed since the last change, and writes those values.
C6_OneTimer ==
  /\ [](/\ Cardinality(timers) <= 1
        /\ \A t \in timers :
             /\ t.id = cleanup /\ dirty
             /\ <<t.fileId, t.name, t.markdown, t.xml>>
                  = <<currentFileId, docTitle, markdown, xml>>
             /\ t.due >= lastChange + AutoSaveDelay)
  /\ [][TimerFire => /\ clock >= lastChange + AutoSaveDelay
                     /\ files' = updateFile(files, currentFileId, docTitle,
                                            markdown, xml)
                     /\ timers' = {}]_vars

\* A timer started by an edit was replaced by the one a later edit started.
C6_Witness ==
  /\ Cardinality(timers) = 1 /\ cleanup = 1 /\ clock = TickMs
  /\ lastChange = TickMs /\ docTitle \in Titles /\ markdown = <<"b", "\n">>
  /\ \A t \in timers : t.due = TickMs + AutoSaveDelay

\* C7: a dirty document with a file open, once the user acts no more, is
\* eventually saved by the auto-save: the file's record holds the current
\* (title, markdown, xml) and dirty is false; a manual save does so at once.
C7_AutoSaveFires ==
  /\ (dirty /\ currentFileId # 0 /\ ~CanAct) ~> (~dirty /\ CurrentSaved)
  /\ [][HandleSave => (~dirty' /\ CurrentSaved')]_vars

\* The auto-save wrote an edited document after the user stopped acting.
C7_Witness ==
  /\ ~dirty /\ CurrentSaved /\ markdown = <<"b", "\n">>
  /\ lastChange + AutoSaveDelay > MaxClock

\* C8: whenever xmlError is null, xml is markdownToNebulaXml of the current
\* markdown and title, whatever the updatedAt timestamp.
C8_XmlFromMarkdown ==
  xmlError = NULL =>
    \E c \in ClockValues : xml = markdownToNebulaXml(markdown, docTitle, ToString(c))

\* ------------------------------------------ conversion: further properties

\* The number of spaces a line starts with.
LeadingSpaces(line) ==
  Cardinality({i \in 1..Len(line) : \A j \in 1..i : line[j] = " "})

\* The elements open at the end of a text: start tags minus end tags.
OpenAtEnd(items) == DepthAt(items, Len(items) + 1)

\* The text of the lines before line k.
LinesBefore(lines, k) == Join(SubSeq(lines, 1, k - 1), <<"\n">>)

\* A line that starts with a tag is indented by two spaces per nesting depth
\* of that tag's element; before is the text that precedes the line.
LineIndentOk(line, t, before) ==
  (t # <<>> /\ t[1] = "<") =>
    LeadingSpaces(line)
      = 2 * (OpenAtEnd(Lex(before)) - (IF StartsWith2(t, "<", "/") THEN 1 ELSE 0))

LinesIndentOk(lines) ==
  \A k \in 1..Len(lines) :
    LineIndentOk(lines[k], Trim(lines[k]), LinesBefore(lines, k))

\* C11: in xmlPretty's output for the XML of an imported render tree, every
\* line that an element starts is indented by exactly two spaces per nesting
\* depth of that element.
C11_IndentByDepth ==
  (source = "html" /\ stage \in {"pretty", "pretty2", "emitted"}) =>
    LinesIndentOk(Split(pretty))

\* ---------------------------------------------------- applyHighlightsToHtml
\* The tree is the child nodes of the <div> that wraps the HTML; a comment is
\* a record [id, quote].

\* The place of the last occurrence instead of the first.
LastIndexOf(t, q) ==
  LET ix == {i \in 1..(Len(t) - Len(q) + 1) : SubSeq(t, i, i + Len(q) - 1) = q}
  IN  IF ix = {} THEN 0 ELSE SeqMax(ix)

\* String.prototype.indexOf(q), counted from 1; 0 when q does not occur
IndexOf(t, q) ==
  LET ix == {i \in 1..(Len(t) - Len(q) + 1) : SubSeq(t, i, i + Len(q) - 1) = q}
  IN  IF ix = {} THEN 0 ELSE SeqMin(ix)

MarkerAttr == "data-nebula-comment"

\* span.className of a marker, abridged
MarkerClass == <<"rounded">>

\* wrapMatchInTextNode without the text after the match.
wrapMatchDropAfter(text, start, len, c) ==
  TextKids(SubSeq(text, 1, start - 1))
  \o <<Elt("span", << <<MarkerAttr, c.id>>, <<"class", MarkerClass>> >>,
           TextKids(SubSeq(text, start, start + len - 1)))>>

\* wrapMatchInTextNode: the nodes that replace the text node, its text being
\* text and the match the len tokens from start.
wrapMatchInTextNode(text, start, len, c) ==
  TextKids(SubSeq(text, 1, start - 1))
  \o <<Elt("span", << <<MarkerAttr, c.id>>, <<"class", MarkerClass>> >>,
           TextKids(SubSeq(text, start, start + len - 1)))>>
  \o TextKids(SubSeq(text, start + len, Len(text)))

RECURSIVE HasMatch(_, _)
\* Some text node under n holds q.
HasMatch(n, q) ==
  IF IsText(n) THEN IndexOf(n.text, q) # 0
  ELSE \E i \in 1..Len(n.kids) : HasMatch(n.kids[i], q)

RECURSIVE WrapNode(_, _, _)
\* visitTextNodes with the callback of the main loop: the first text node in
\* depth-first order that holds q is replaced, the others are left.
WrapNode(n, q, c) ==
  IF IsText(n)
  THEN (IF IndexOf(n.text, q) # 0
        THEN wrapMatchInTextNode(n.text, IndexOf(n.text, q), Len(q), c)
        ELSE <<n>>)
  ELSE LET hits == {i \in 1..Len(n.kids) : HasMatch(n.kids[i], q)} IN
       <<Elt(n.tag, n.attrs,
             Flatten([i \in 1..Len(n.kids) |->
                        IF hits # {} /\ i = SeqMin(hits)
                        THEN WrapNode(n.kids[i], q, c) ELSE <<n.kids[i]>>]))>>

\* One pass of the main loop, for comment c on the children kids of the root.
ApplyComment(kids, c, q) ==
  IF q = <<>> THEN kids ELSE WrapNode(Elt("div", <<>>, kids), q, c)[1].kids

RECURSIVE ApplyComments(_, _)
ApplyComments(kids, cs) ==
  IF cs = <<>> THEN kids
  ELSE ApplyComments(ApplyComment(kids, Head(cs), Trim(Head(cs).quote)), Tail(cs))

\* The tree whose innerHTML applyHighlightsToHtml returns.
applyHighlightsToHtml(tree, comments) ==
  IF comments = <<>> THEN tree ELSE ApplyComments(tree, comments)

\* ------------------------------------------------- functions: the inputs

\* Render trees to annotate: a repeated word in one text node, a word split
\* by an inline element, the same text in two paragraphs.
NoteTrees ==
  { <<R("p", <<Txt(<<"a", "b", " ", "a", "b">>)>>)>>,
    <<R("p", <<Txt(<<"a">>), R("strong", <<Txt(<<"b">>)>>), Txt(<<" ", "a", "b">>)>>)>>,
    <<R("p", <<Txt(<<"a", "b">>)>>), Txt(<<"\n">>), R("p", <<Txt(<<"a", "b">>)>>)>> }

\* Quotes: a word, a part of it, the word with spaces around it, text that
\* spans two words, text that is not there, and no text.
Quotes ==
  { <<"a", "b">>, <<"b">>, <<" ", "a", "b", " ">>, <<"b", " ", "a">>, <<"x">>, <<>> }

\* Up to MaxComments comments; the id of a comment is its place in the list.
CommentLists ==
  UNION {{ Tup([i \in 1..n |-> [id |-> <<ToString(i)>>, quote |-> qs[i]]]) :
             qs \in [1..n -> Quotes] } : n \in 0..MaxComments}

\* -------------------------------------------------- functions: actions

\* ------------------------------------------------------ find and replace

\* The characters of /[.*+?^${}()|[\]\\]/
RegExpSpecial ==
  {".", "*", "+", "?", "^", "$", "{", "}", "(", ")", "|", "[", "]", "\\"}

\* term.replace(/[.*+?^${}()|[\]\\]/g, "\\$&")
EscapeRegExp(term) ==
  Flatten([i \in 1..Len(term) |->
             IF term[i] \in RegExpSpecial THEN <<"\\", term[i]>> ELSE <<term[i]>>])

RECURSIVE Atoms(_)
\* new RegExp(p): the atoms of the pattern p, each matching one character. A
\* character after a backslash stands for itself, a dot for any character
\* but a line break; the patterns of runFindReplace hold no other operator.
Atoms(p) ==
  IF p = <<>> THEN <<>>
  ELSE IF p[1] = "\\" /\ Len(p) >= 2
  THEN <<[any |-> FALSE, ch |-> p[2]]>> \o Atoms(SubSeq(p, 3, Len(p)))
  ELSE <<[any |-> p[1] = ".", ch |-> p[1]]>> \o Atoms(Tail(p))

\* Case folding of the flag i, over the letters of the inputs.
Fold(c) == IF c = "A" THEN "a" ELSE IF c = "B" THEN "b" ELSE c

\* The atoms match the text at i; ci is the flag i.
MatchesAt(text, i, atoms, ci) ==
  /\ i + Len(atoms) - 1 <= Len(text)
  /\ \A k \in 1..Len(atoms) :
       IF atoms[k].any THEN text[i + k - 1] # "\n"
       ELSE IF ci THEN Fold(text[i + k - 1]) = Fold(atoms[k].ch)
       ELSE text[i + k - 1] = atoms[k].ch

RECURSIVE Expand(_, _, _, _)
\* The replacement string of String.prototype.replace for the match of n
\* characters at i: $$ is a dollar sign, $& the match, $` the text before it,
\* $' the text after it; a pattern without groups leaves $1 as it is.
Expand(repl, text, i, n) ==
  IF repl = <<>> THEN <<>>
  ELSE IF StartsWith2(repl, "$", "$")
  THEN <<"$">> \o Expand(SubSeq(repl, 3, Len(repl)), text, i, n)
  ELSE IF StartsWith2(repl, "$", "&")
  THEN SubSeq(text, i, i + n - 1) \o Expand(SubSeq(repl, 3, Len(repl)), text, i, n)
  ELSE IF StartsWith2(repl, "$", BT)
  THEN SubSeq(text, 1, i - 1) \o Expand(SubSeq(repl, 3, Len(repl)), text, i, n)
  ELSE IF StartsWith2(repl, "$", "'")
  THEN SubSeq(text, i + n, Len(text)) \o Expand(SubSeq(repl, 3, Len(repl)), text, i, n)
  ELSE <<repl[1]>> \o Expand(Tail(repl), text, i, n)

RECURSIVE ReplaceFrom(_, _, _, _, _)
\* text.replace(re, repl) with the flag g, from the place i on: the matches
\* are taken from left to right and do not overlap.
ReplaceFrom(text, i, atoms, ci, repl) ==
  IF i > Len(text) THEN <<>>
  ELSE IF MatchesAt(text, i, atoms, ci)
  THEN Expand(repl, text, i, Len(atoms))
         \o ReplaceFrom(text, i + Len(atoms), atoms, ci, repl)
  ELSE <<text[i]>> \o ReplaceFrom(text, i + 1, atoms, ci, repl)

\* runFindReplace("replaceAll"): the markdown and the dirty flag it leaves.
runFindReplace(md, d, findTerm, replaceTerm, caseSensitive) ==
  IF findTerm = <<>> THEN [markdown |-> md, dirty |-> d]
  ELSE [markdown |-> ReplaceFrom(md, 1, Atoms(EscapeRegExp(findTerm)),
                                 ~caseSensitive, replaceTerm),
        dirty |-> TRUE]

\* The markdown, the find term and the replacement of a replace-all.
ReplaceInputs ==
  [markdown : { <<"a", ".", "b", " ", "A", "a">>, <<"a", "x", "b", "\n", "a", ".", "b">> },
   dirty : BOOLEAN,
   findTerm : { <<>>, <<"a">>, <<"A">>, <<".">>, <<"a", ".", "b">>, <<"a", "a">> },
   replaceTerm : { <<>>, <<"x">>, <<"a", "a">>, <<"$", "&">>, <<"$", "$">>, <<"$", "1">> },
   caseSensitive : BOOLEAN]

\* ------------------------------------------------------------------ export

\* "nebula", character by character
NebulaName == <<"n", "e", "b", "u", "l", "a">>

\* The characters of [a-z0-9\-_. ] under the flag i, among those of the titles.
SafeChars ==
  {"a", "b", "e", "l", "n", "u", "A", "Z", "0", "7", "-", "_", ".", " "}

\* The name without the trim.
safeNameUntrimmed(title) ==
  LET kept == SelectSeq(IF title = <<>> THEN NebulaName ELSE title,
                        LAMBDA c : c \in SafeChars)
  IN  IF kept = <<>> THEN NebulaName ELSE kept

\* (docTitle || "nebula").replace(/[^a-z0-9\-_. ]/gi, "").trim() || "nebula"
safeName(title) ==
  LET kept == Trim(SelectSeq(IF title = <<>> THEN NebulaName ELSE title,
                             LAMBDA c : c \in SafeChars))
  IN  IF kept = <<>> THEN NebulaName ELSE kept

\* exportFile(kind): the name and the content of the download.
exportFile(kind, title, md, x) ==
  [download |-> safeName(title) \o <<".">>
                  \o (IF kind = "xml" THEN NebulaName \o <<".", "x", "m", "l">>
                      ELSE <<"m", "d">>),
   blob |-> IF kind = "xml" THEN x ELSE md]

\* The titles of exported documents: empty, plain, with characters outside
\* the class, with spaces around and inside, and with nothing to keep.
ExportTitles ==
  { <<>>, <<"a">>, <<"a", " ", "b">>, <<" ", "a", "/", "b", " ">>,
    <<"/", " ", "a", " ", ":">>, <<"*", "/">>, <<" ", " ">>,
    <<"Z", "7", "-", "_", ".", "@">>, <<"/", " ", ":">> }

ExportInputs ==
  [kind : {"xml", "markdown"}, title : ExportTitles,
   markdown : TypedMarkdown \cup {<<" ", "b", "\n", "\n">>}, xml : EditorXml]

\* ------------------------------------------------- the functions under test

ToolInit ==
  /\ ConvIdle
  /\ EditorIdle
  /\ \/ /\ fn = "highlight"
        /\ input \in [html : NoteTrees, comments : CommentLists]
        /\ output = [tree |-> input.html, applied |-> 0]
     \/ /\ fn = "replace"
        /\ input \in ReplaceInputs
        /\ output = <<>>
     \/ /\ fn = "exportFile"
        /\ input \in ExportInputs
        /\ output = <<>>
     \/ /\ fn = "markdownToNebulaXml"
        /\ input \in [markdown : TypedMarkdown \cup {DefaultFileMd}, title : Titles]
        /\ output = <<>>

\* The main loop of applyHighlightsToHtml takes the next comment.
Highlight ==
  /\ fn = "highlight"
  /\ output.applied < Len(input.comments)
  /\ output' = [tree |-> ApplyComment(output.tree,
                                      input.comments[output.applied + 1],
                                      Trim(input.comments[output.applied + 1].quote)),
                applied |-> output.applied + 1]
  /\ UNCHANGED <<fn, input, convVars, edVars>>

\* A click on "Replace all".
ReplaceAll ==
  /\ fn = "replace"
  /\ output = <<>>
  /\ output' = <<runFindReplace(input.markdown, input.dirty, input.findTerm,
                                input.replaceTerm, input.caseSensitive)>>
  /\ UNCHANGED <<fn, input, convVars, edVars>>

\* A call of markdownToNebulaXml with the arguments of input; nowIso()
\* returns the time of the call. output lists the results of the calls.
CallMarkdownToNebulaXml ==
  /\ fn = "markdownToNebulaXml"
  /\ Len(output) < 2
  /\ \E now \in ClockValues :
       output' = Append(output, markdownToNebulaXml(input.markdown, input.title,
                                                    ToString(now)))
  /\ UNCHANGED <<fn, input, convVars, edVars>>

\* A click on an export button.
ExportFile ==
  /\ fn = "exportFile"
  /\ output = <<>>
  /\ output' = <<exportFile(input.kind, input.title, input.markdown, input.xml)>>
  /\ UNCHANGED <<fn, input, convVars, edVars>>

ToolNext == Highlight \/ ReplaceAll \/ CallMarkdownToNebulaXml \/ ExportFile

SpecTools == ToolInit /\ [][ToolNext]_vars

\* ------------------------------------------------ annotations: properties

RECURSIVE TextsOf(_)
\* The texts of the text nodes of a sequence of nodes, in depth-first order.
TextsOf(kids) ==
  Flatten([i \in 1..Len(kids) |->
             IF IsText(kids[i]) THEN <<kids[i].text>> ELSE TextsOf(kids[i].kids)])

IsMarker(e) == e.tag = "span" /\ AttrOr(e, MarkerAttr, <<>>) # <<>>

\* The marker spans under the root, in document order.
Markers(kids) == SelectSeq(Descendants(Elt("div", <<>>, kids)), IsMarker)

\* q stands in t at place i.
OccursAt(t, q, i) ==
  i >= 1 /\ i + Len(q) - 1 <= Len(t) /\ SubSeq(t, i, i + Len(q) - 1) = q

\* The first text that holds q, and the place of q's first occurrence in it,
\* as the number of tokens of the tree's text that precede the occurrence.
FirstOccurrence(texts, q) ==
  LET j == SeqMin({k \in 1..Len(texts) : Contains(texts[k], q)})
      i == SeqMin({k \in 1..Len(texts[j]) : OccursAt(texts[j], q, k)})
  IN  Len(Flatten(SubSeq(texts, 1, j - 1))) + i - 1

RECURSIVE TextBefore(_, _)
\* The number of tokens of text that precede the marker of id in document
\* order, and whether there is such a marker.
TextBefore(kids, id) ==
  IF kids = <<>> THEN [found |-> FALSE, len |-> 0]
  ELSE LET h == Head(kids)
           hr == IF IsText(h) THEN [found |-> FALSE, len |-> Len(h.text)]
                 ELSE IF IsMarker(h) /\ AttrOr(h, MarkerAttr, <<>>) = id
                 THEN [found |-> TRUE, len |-> 0]
                 ELSE TextBefore(h.kids, id)
       IN  IF hr.found THEN hr
           ELSE [found |-> TextBefore(Tail(kids), id).found,
                 len |-> hr.len + TextBefore(Tail(kids), id).len]

\* What the pass for comment c, of trimmed quote q, made of the tree t.
WrappedOnce(t, c, q, t2) ==
  IF q # <<>> /\ \E k \in 1..Len(TextsOf(t)) : Contains(TextsOf(t)[k], q)
  THEN /\ Len(Markers(t2)) = Len(Markers(t)) + 1
       /\ Len(SelectSeq(Markers(t2),
                        LAMBDA m : AttrOr(m, MarkerAttr, <<>>) = c.id
                                   /\ TextContent(m) = q)) = 1
       /\ TextBefore(t2, c.id).len = FirstOccurrence(TextsOf(t), q)
       /\ Flatten(TextsOf(t2)) = Flatten(TextsOf(t))
  ELSE t2 = t

C13_NoNestedMarkers ==
  fn = "highlight" =>
    \A i \in 1..Len(Markers(output.tree)) :
      Markers(Markers(output.tree)[i].kids) = <<>>

RECURSIVE MergeTexts(_)
\* The nodes with each run of adjacent text nodes made one text node.
MergeTexts(kids) ==
  IF Len(kids) < 2 THEN kids
  ELSE IF IsText(kids[1]) /\ IsText(kids[2])
  THEN MergeTexts(<<Txt(kids[1].text \o kids[2].text)>> \o SubSeq(kids, 3, Len(kids)))
  ELSE <<kids[1]>> \o MergeTexts(Tail(kids))

RECURSIVE Unmarked(_)
\* The nodes with every marker span replaced by its children.
Unmarked(kids) ==
  MergeTexts(Flatten([i \in 1..Len(kids) |->
                        IF IsText(kids[i]) THEN <<kids[i]>>
                        ELSE IF IsMarker(kids[i]) THEN Unmarked(kids[i].kids)
                        ELSE <<Elt(kids[i].tag, kids[i].attrs,
                                   Unmarked(kids[i].kids))>>]))

\* C30: applyHighlightsToHtml changes only markup: after every pass the
\* concatenated text of the tree is that of the input tree, and the tree
\* with its marker spans replaced by their children is the input tree.
C30_OnlyMarkersAdded ==
  fn = "highlight" =>
    /\ Flatten(TextsOf(output.tree)) = Flatten(TextsOf(input.html))
    /\ Unmarked(output.tree) = input.html

\* Two annotations were applied to the paragraph whose word is split by an
\* inline element, and each one added a marker.
C30_Witness ==
  /\ fn = "highlight" /\ output.applied = 2 /\ Len(input.comments) = 2
  /\ Len(input.html) = 1 /\ Len(input.html[1].kids) = 3
  /\ Len(Markers(output.tree)) = 2

\* ------------------------------------------------- file manager: properties

\* C26: once the provider has mounted, whatever createFile, openFile,
\* deleteFile, duplicateFile, updateFile, renameFile, moveFile and
\* deleteFolder did, there is a file, no two files share an id, and
\* currentFileId is the id of one of the files.
C26_FilesWellFormed ==
  /\ Len(files) >= 1
  /\ \A i, j \in 1..Len(files) : files[i].id = files[j].id => i = j
  /\ \E i \in 1..Len(files) : files[i].id = currentFileId

\* The only file was deleted: a default file with a new id took its place,
\* is current and was loaded.
C26_Witness ==
  /\ files = <<createDefaultFile(2)>>
  /\ currentFileId = 2
  /\ markdown = DefaultFileMd

\* The editor holds what the record f gives on load, and nothing is pending.
LoadedFrom(f) ==
  /\ docTitle' = f.name
  /\ markdown' = MarkdownOrDefault(f.markdown)
  /\ ~dirty'
  /\ timers' = {}

\* The record of the file id had its markdown or its xml written in the step.
Written(id) ==
  /\ HasFile(files, id) /\ HasFile(files', id)
  /\ <<FileById(files', id).markdown, FileById(files', id).xml>>
       # <<FileById(files, id).markdown, FileById(files, id).xml>>

\* C24: what a save writes into the record of a file is what the editor held
\* for that file. A pending timer holds the current file and the editor's
\* title, markdown and xml; when the current file changes the editor is
\* loaded from the new file's record and no timer stays; a record is
\* written only while its file is current, with the editor's values.
C24_SavesOwnContent ==
  /\ [](\A t \in timers :
         <<t.fileId, t.name, t.markdown, t.xml>>
           = <<currentFileId, docTitle, markdown, xml>>)
  /\ [][/\ currentFileId' # currentFileId =>
            LoadedFrom(FileById(files', currentFileId'))
        /\ \A id \in 1..MaxFiles :
             Written(id) =>
               /\ id = currentFileId
               /\ FileById(files', id) =
                    [id |-> id, name |-> docTitle, markdown |-> markdown,
                     xml |-> xml]]_vars

\* Two files were edited and saved, each while it was current, with a
\* switch in between.
C24_Witness ==
  /\ Len(files) = 2
  /\ \A i \in 1..2 :
       /\ files[i].markdown = <<"b", "\n">>
       /\ files[i].xml # <<>>
       /\ Copies(files[i].name) = 0
  /\ files[1].xml # files[2].xml
  /\ ~dirty

\* C25: an openFile or createFile made while the editor is dirty leaves, in
\* the record of the file that was open, the markdown and the title the
\* editor held. (No timer of that file outlives the switch, so that what the
\* switch leaves in the record is what the record ends up holding.)
C25_SwitchKeepsEdits ==
  [][(dirty /\ (OpenFile \/ CreateFile)) =>
       /\ FileById(files', currentFileId).markdown = markdown
       /\ FileById(files', currentFileId).name = docTitle]_vars

\* C27: while a file is open and dirty is false, the editor's markdown and
\* title are the markdown and the name of the current file's record.
C27_CleanEditorIsRecord ==
  (HasFile(files, currentFileId) /\ ~dirty) =>
    /\ markdown = FileById(files, currentFileId).markdown
    /\ docTitle = FileById(files, currentFileId).name

\* C28: a save does not undo a renameFile of the current file. When dirty is
\* false and the record's name is not the editor's title, the name comes
\* from a rename and the title was not edited since (an edit of the title
\* sets dirty, and a load or a save makes the two equal): a save then
\* leaves the record's name as it is.
C28_SaveKeepsRename ==
  [][(/\ ~dirty
      /\ FileById(files, currentFileId).name # docTitle
      /\ (HandleSave \/ TimerFire)) =>
       FileById(files', currentFileId).name = FileById(files, currentFileId).name]_vars

\* The record's xml is markdownToNebulaXml of its markdown and its name,
\* whatever the updatedAt timestamp.
ConsistentPair(f) ==
  \E c \in ClockValues : f.xml = markdownToNebulaXml(f.markdown, f.name, ToString(c))

\* C29: the record a save writes holds the xml derived from its markdown and
\* its name, also after a failed edit in the XML view or a failed import.
C29_SavedPairConsistent ==
  [][(HandleSave \/ TimerFire) => ConsistentPair(FileById(files', currentFileId))]_vars

\* -------------------------------------------------- list import: properties

\* The block a child of an <li> that holds a block is imported as.
BlockKind(n) ==
  IF IsText(n) THEN "paragraph"
  ELSE CASE n.tag \in {"ul", "ol"} -> "list"
         [] n.tag = "pre" -> "codeBlock"
         [] n.tag = "blockquote" -> "blockquote"
         [] n.tag = "table" -> "table"
         [] n.tag = "hr" -> "divider"
         [] n.tag = "img" -> "image"
         [] n.tag \in {"h1", "h2", "h3", "h4", "h5", "h6"} -> "heading"
         [] OTHER -> "paragraph"

\* The inline node a child of an <li> without blocks is imported as.
InlineKind(n) ==
  IF IsText(n) THEN "#text"
  ELSE CASE n.tag \in {"strong", "b"} -> "bold"
         [] n.tag \in {"em", "i"} -> "italic"
         [] n.tag \in {"del", "s"} -> "strike"
         [] n.tag = "code" -> "code"
         [] n.tag = "a" -> "link"
         [] n.tag = "br" -> "break"
         [] OTHER -> "span"

\* The children of n but the texts of white space only.
NonBlank(n) == SelectSeq(n.kids, LAMBDA c : IsElt(c) \/ Trim(c.text) # <<>>)

HoldsBlock(li) ==
  \E i \in 1..Len(li.kids) :
    IsElt(li.kids[i]) /\ li.kids[i].tag \in {"p", "ul", "ol", "pre", "blockquote", "table"}

RECURSIVE ListImportOk(_, _)
\* list is the import of the rendered list node: one <item> per <li>, in
\* order; the item of an <li> that holds a block has one block per child,
\* texts of white space left out and other texts trimmed into a paragraph;
\* any other item has one paragraph with one inline node per child.
ListImportOk(node, list) ==
  LET lis == SelectSeq(Children(node), LAMBDA c : c.tag = "li") IN
  /\ list.tag = "list"
  /\ Len(list.kids) = Len(lis)
  /\ \A i \in 1..Len(lis) :
       LET li == lis[i]
           item == list.kids[i]
       IN
       /\ item.tag = "item"
       /\ IF HoldsBlock(li)
          THEN /\ Len(item.kids) = Len(NonBlank(li))
               /\ \A j \in 1..Len(NonBlank(li)) :
                    /\ item.kids[j].tag = BlockKind(NonBlank(li)[j])
                    /\ IsText(NonBlank(li)[j]) =>
                         item.kids[j].kids = <<Txt(Trim(NonBlank(li)[j].text))>>
                    /\ item.kids[j].tag = "list" =>
                         ListImportOk(NonBlank(li)[j], item.kids[j])
          ELSE /\ Len(item.kids) = 1
               /\ item.kids[1].tag = "paragraph"
               /\ Len(item.kids[1].kids) = Len(li.kids)
               /\ \A j \in 1..Len(li.kids) :
                    /\ item.kids[1].kids[j].tag = InlineKind(li.kids[j])
                    /\ IsText(li.kids[j]) => item.kids[1].kids[j] = li.kids[j]

\* The blocks of the document the XML text x holds.
ImportedBlocks(x) == DocNodes(ParseXml(x))[1].kids

\* The blocks bs are those of the render tree, list by list.
ListsImportOk(tree, bs) ==
  /\ Len(bs) = Len(tree)
  /\ \A k \in 1..Len(tree) :
       (IsElt(tree[k]) /\ tree[k].tag \in {"ul", "ol"}) => ListImportOk(tree[k], bs[k])

\* C23: each <li> of an imported list gives exactly one <item>; when a child
\* of the <li> is a p, ul, ol, pre, blockquote or table every child becomes a
\* block of the item, in order, bare text a paragraph and white space
\* nothing; otherwise the item is one paragraph with all children inline.
C23_ItemPerLi ==
  (source = "html" /\ stage # "input") =>
    ListsImportOk(SelectSeq(html, LAMBDA c : IsElt(c) \/ Trim(c.text) # <<>>),
                  ImportedBlocks(xmlOut))

\* The list with an item of inline content and an item that holds a block,
\* bare text, an inline element and white space was imported.
C23_Witness ==
  /\ source = "html"
  /\ stage = "imported"
  /\ Len(html) = 1
  /\ html[1].tag = "ol"
  /\ Len(ImportedBlocks(xmlOut)[1].kids[2].kids) = 3

\* --------------------------------------------------- validation: properties

\* The tags of the text that open an element, in document order.
OpeningTags(items) ==
  SelectSeq(items, LAMBDA it : it.kind \in {"open", "empty"})

\* The text is well-formed, its root is <nebula> and it holds an element
\* named document.
HasNebulaDocument(items) ==
  /\ WellFormed(items)
  /\ OpeningTags(items)[1].tag = "nebula"
  /\ \E i \in 1..Len(OpeningTags(items)) : OpeningTags(items)[i].tag = "document"

\* C21: nebulaXmlToMarkdown returns no error for well-formed text whose root
\* is <nebula> and that holds a <document>, whatever else the text holds;
\* an error is one of the three of the validation, and comes with the empty
\* markdown.
C21_ErrorsOnlyFromValidation ==
  (source = "typed" /\ stage = "emitted") =>
    /\ HasNebulaDocument(Lex(typed)) => result.error = NULL
    /\ result.error \in {NULL, ErrParse, ErrRoot, ErrDocument}
    /\ result.error # NULL => result.markdown = <<>>

\* The children of the root that are named document.
OwnDocuments(root) == SelectSeq(Children(root), LAMBDA e : e.tag = "document")

\* C22: for well-formed text whose root is <nebula>, the error is the missing
\* <document> exactly when no child of the root is named document, a
\* <document> deeper in the tree not counting, and the blocks converted are
\* the children of the root's own <document>.
C22_DocumentIsChildOfRoot ==
  (/\ source = "typed"
   /\ stage = "emitted"
   /\ WellFormed(Lex(typed))
   /\ OpeningTags(Lex(typed))[1].tag = "nebula") =>
    /\ result.error = ErrDocument <=> OwnDocuments(dom) = <<>>
    /\ result.error = NULL => blocks = TopBlocks(OwnDocuments(dom)[1])

\* ------------------------------------------------ final newline: properties

\* m ends with a line break, and what is before it neither starts nor ends
\* with white space.
TrimmedWithNewline(m) ==
  /\ Len(m) >= 1
  /\ m[Len(m)] = "\n"
  /\ Len(m) >= 2 => (m[1] \notin WS /\ m[Len(m) - 1] \notin WS)

\* C20: the markdown nebulaXmlToMarkdown returns without error is trimmed and
\* ends with exactly one line break, also for an empty <document> and when
\* the last block is a quote, a table or an image without src.
C20_OneFinalNewline ==
  (stage = "emitted" /\ result.error = NULL) => TrimmedWithNewline(result.markdown)

\* A document was emitted whose last block, an image without src, gave the
\* empty fragment after a paragraph.
C20_Witness ==
  /\ stage = "emitted"
  /\ result.error = NULL
  /\ blocks = << <<"b">>, <<>> >>
  /\ result.markdown = <<"b", "\n">>

\* ----------------------------------------------------- export: properties

\* A letter, a digit, or one of - _ . and the space.
InNameClass(c) ==
  c \in {"a", "b", "A", "Z", "7", "-", "_", ".", " "}

\* t is s without the spaces at its ends.
IsTrimOf(t, s) ==
  /\ t = <<>> \/ (t[1] # " " /\ t[Len(t)] # " ")
  /\ \E i \in 0..(Len(s) - Len(t)) :
       /\ SubSeq(s, i + 1, i + Len(t)) = t
       /\ \A k \in (1..i) \cup ((i + Len(t) + 1)..Len(s)) : s[k] = " "

\* name is the file name of an export of the kind for the title.
IsExportName(name, kind, title) ==
  \E i \in 1..(Len(title) + 1), j \in 0..Len(title) :
    LET kept == SelectSeq(title, InNameClass)
        base == IF j <= Len(kept) THEN SubSeq(kept, i, j) ELSE <<>>
    IN
    /\ IsTrimOf(base, kept)
    /\ name = (IF base = <<>> THEN <<"n", "e", "b", "u", "l", "a">> ELSE base)
                \o (IF kind = "xml"
                    THEN <<".", "n", "e", "b", "u", "l", "a", ".", "x", "m", "l">>
                    ELSE <<".", "m", "d">>)

\* C19: the file name of an export is the title without the characters
\* outside [A-Za-z0-9-_. ], trimmed, or "nebula" when nothing is left,
\* followed by .md or .nebula.xml; the content is the markdown or the xml as
\* it is.
C19_ExportName ==
  (fn = "exportFile" /\ output # <<>>) =>
    /\ IsExportName(output[1].download, input.kind, input.title)
    /\ output[1].blob = IF input.kind = "xml" THEN input.xml ELSE input.markdown

\* A title with a slash in it and spaces around it was exported as XML.
C19_Witness ==
  /\ fn = "exportFile"
  /\ output # <<>>
  /\ input.kind = "xml"
  /\ input.title = <<" ", "a", "/", "b", " ">>
  /\ output[1].download = <<"a", "b", ".", "n", "e", "b", "u", "l", "a", ".", "x", "m", "l">>

\* ----------------------------------------------------- purity: properties

\* C18: two calls of markdownToNebulaXml with the same markdown, title and
\* allowUnsafe return the same XML text, whenever they are made.
C18_SameXml ==
  (fn = "markdownToNebulaXml" /\ Len(output) = 2) => output[1] = output[2]

\* ---------------------------------------------------- history: properties

\* C17: a Save puts a snapshot of the current markdown in history, from where
\* restoreSnapshot can bring it back, and history holds at most 40 snapshots.
C17_SaveSnapshots ==
  [][HandleSave =>
       /\ \E i \in 1..Len(history') : history'[i].markdown = markdown
       /\ Len(history') <= 40]_vars

\* ---------------------------------------------------- replace: properties

\* The term occurs in the text at i, letter case counting only if cs.
TermAt(text, i, term, cs) ==
  /\ i + Len(term) - 1 <= Len(text)
  /\ \A k \in 1..Len(term) :
       IF cs THEN text[i + k - 1] = term[k]
       ELSE Fold(text[i + k - 1]) = Fold(term[k])

RECURSIVE LiteralReplace(_, _, _, _, _)
\* The text from i on with every occurrence of the term, taken from left to
\* right, replaced by the characters of repl.
LiteralReplace(text, i, term, cs, repl) ==
  IF i > Len(text) THEN <<>>
  ELSE IF TermAt(text, i, term, cs)
  THEN repl \o LiteralReplace(text, i + Len(term), term, cs, repl)
  ELSE <<text[i]>> \o LiteralReplace(text, i + 1, term, cs, repl)

\* C16: replace-all puts the replacement text, as it is, in the place of
\* every occurrence of the find term, the term being read character by
\* character and letter case counting only when the toggle is on, and sets
\* dirty; with an empty find term markdown and dirty stay as they are.
C16_ReplaceAllLiteral ==
  (fn = "replace" /\ output # <<>>) =>
    output[1] =
      IF input.findTerm = <<>>
      THEN [markdown |-> input.markdown, dirty |-> input.dirty]
      ELSE [markdown |-> LiteralReplace(input.markdown, 1, input.findTerm,
                                        input.caseSensitive, input.replaceTerm),
            dirty |-> TRUE]

\* ----------------------------------------------------- import: properties

\* The last four characters of the name are ".xml".
NameEndsXml(name) ==
  Len(name) >= 4 /\ SubSeq(name, Len(name) - 3, Len(name)) = <<".", "x", "m", "l">>

\* A step in which importFile got the file f.
ImportStep(f) == CanAct /\ Apply(Imported(IsXmlName(f[1]), f[2]))

\* C15: a file whose name does not end in .xml is never parsed as XML: its
\* text becomes the markdown as it is and dirty is set.
C15_OnlyXmlNamesParsed ==
  [][\A f \in ImportFiles :
       (~NameEndsXml(f[1]) /\ ImportStep(f)) => (markdown' = f[2] /\ dirty')]_vars

\* ------------------------------------------------------ lists: properties

\* The marker of the i-th item of the list el.
MarkerOf(el, i) ==
  IF AttrOr(el, "ordered", <<>>) = <<"true">>
  THEN <<ToString(i), ".", " ">> ELSE <<"-", " ">>

StartsWith(t, p) == Len(t) >= Len(p) /\ SubSeq(t, 1, Len(p)) = p

\* The places of the lines that are not indented.
TopLines(lines) ==
  SelectSeq(Tup([i \in 1..Len(lines) |-> i]),
            LAMBDA i : lines[i] = <<>> \/ lines[i][1] # " ")

\* The lines after line i and before line j, without their two-space indent.
Nested(lines, i, j) ==
  Tup([k \in 1..(j - i - 1) |-> SubSeq(lines[i + k], 3, Len(lines[i + k]))])

RECURSIVE ListMarkersOk(_, _, _, _)
\* lines are the lines emitted for the list el, items its <item> children and
\* top the places of the lines that are not indented: there is one such line
\* per item, it starts with the item's marker, and the lines under an item
\* that holds a list are those of that list, numbered on its own.
ListMarkersOk(el, items, lines, top) ==
  /\ Len(top) = Len(items)
  /\ \A i \in 1..Len(items) :
       /\ StartsWith(lines[top[i]], MarkerOf(el, i))
       /\ \A b \in 2..Len(Children(items[i])) :
            Children(items[i])[b].tag = "list" =>
              ListMarkersOk(
                Children(items[i])[b],
                SelectSeq(Children(Children(items[i])[b]), LAMBDA c : c.tag = "item"),
                Nested(lines, top[i], IF i = Len(top) THEN Len(lines) + 1 ELSE top[i + 1]),
                TopLines(Nested(lines, top[i],
                                IF i = Len(top) THEN Len(lines) + 1 ELSE top[i + 1])))

\* C14: the items of a list with ordered="true" are marked 1., 2., ..., n. in
\* order, whatever other attributes the list has; a nested ordered list
\* starts at 1 again; the items of any other list are marked "- ".
C14_ListMarkers ==
  (source = "typed" /\ stage = "emitted" /\ result.error = NULL) =>
    \A k \in 1..Len(blocks) :
      Children(DocNodes(dom)[1])[k].tag = "list" =>
        ListMarkersOk(Children(DocNodes(dom)[1])[k],
                      SelectSeq(Children(Children(DocNodes(dom)[1])[k]),
                                LAMBDA c : c.tag = "item"),
                      Split(blocks[k]), TopLines(Split(blocks[k])))

\* An ordered list of three items, the second holding an ordered list of two,
\* was emitted.
C14_Witness ==
  /\ source = "typed" /\ stage = "emitted" /\ result.error = NULL
  /\ blocks = << <<"1", ".", " ", "a", "\n",
                   "2", ".", " ", "b", "\n",
                   " ", " ", "1", ".", " ", "c", "\n",
                   " ", " ", "2", ".", " ", "x", "\n",
                   "3", ".", " ", "c">> >>

====
